---- MODULE Spec2Model ----
(***************************************************************************)
(* CryptoWatcher: market data and detection engine.                        *)
(*                                                                         *)
(* State machines over one set of variables:                               *)
(*   TickSpec  the tick store of one currency pair (core/market.py)        *)
(*   IndSpec   the tick store with the pair's derived data (market.py)     *)
(*   MathSpec  calls of the moving average function (common/math.py)       *)
(*   ChgSpec   the change filter of the pair selection (core/market.py)    *)
(*   BackSpec  the tick store with its back-refreshes (core/market.py)     *)
(*   UpdSpec   the tick update tasks of every pair (core/market.py)        *)
(*   RuleSpec  the evaluation of one condition's rules (detector.py)       *)
(*   RstSpec   restarts and the restore of the triggers (detector.py)      *)
(*   FollowSpec  calls of the follow filters (core/detector.py)            *)
(*   OvlSpec   the overlap filter and the buy actions (core/detector.py)   *)
(*   ConsSpec  the max_consecutive filter (core/detector.py)              *)
(*   MemoSpec  the rule cache of an evaluation cycle (core/detector.py)    *)
(*   SaveSpec  the saved detection triggers and restarts (core/detector.py) *)
(*   Spec      the detection state machine of one pair (core/detector.py)  *)
(*   AppSpec   the application tasks and the data lock (cryptowatcher.py)  *)
(*   VetoSpec  the triggers of a vetoed detection (core/detector.py)       *)
(*   StatSpec  the detection statistics of one pair (core/detector.py)     *)
(*   GreySpec  the greylist through the pairs refreshes (core/market.py)   *)
(*   SyncSpec  the pair sets of the services after a pairs refresh (cryptowatcher.py)*)
(*   SchedSpec  the schedule of back-refreshes of several pairs (core/market.py)*)
(*   EarlySpec  update cycles that come before the next tick (core/market.py)*)
(*   AlignSpec  the adjusted series of a pair through the truncations (core/market.py)*)
(*   IncSpec  the incremental update of the moving averages (core/market.py)*)
(*   StopSpec  the event-loop tasks, the interrupt flag and the shutdown   *)
(* Each specification moves its own variables and leaves the others alone. *)
(***************************************************************************)
EXTENDS Integers, Sequences, FiniteSets, TLC

VARIABLES
    \* ---- tick store (Market), one pair ----
    now,                 \* time.time(), seconds
    close_times,         \* Market.close_times[pair]; <<>> when the pair has no data
    close_values,        \* Market.close_values[pair]
    close_times_backup,  \* Market.close_times_backup[pair]
    close_values_backup, \* Market.close_values_backup[pair]
    in_pairs,            \* pair in Market.pairs
    greylist_pairs,      \* Market.greylist_pairs[pair]: expiry time, 0 when absent
    back_refreshes,      \* Market.back_refreshes
    last_update_nums,    \* Market.last_update_nums[pair]
    \* ---- detector (Detector), one pair ----
    tick_time,           \* market.close_times[pair][-1] as the detector reads it
    tick_prev_time,      \* market.close_times[pair][-2]
    ma,                  \* market.close_value_mas[pair][window][-1], by window index
    ma_prev,             \* market.close_value_mas[pair][window][-2]
    eval_ma,             \* history: the MAs at the latest evaluation cycle that had
                         \* two values of each MA to look at (NoMa before the first)
    evals_since_tick,    \* evaluation cycles run on the current tick
    detection_triggers,  \* Detector.detection_triggers[pair]
    test_triggers,       \* the triggers evaluated afresh in the latest cycle
    cache,               \* Detector.cache[pair]['rule']
    detection_states,    \* Detector.detection_states[pair][name]['occurrence']
    last_detections,     \* Detector.last_detections[pair]
    rsi_descending,      \* Detector.indicator_states[pair]['RSI']['descending']
    action_lock,         \* Detector.action_lock is held
    dpc,                 \* where the detector's cycle for the pair stands
    d_index,             \* process_detections: the detection the loop is at
    futures,             \* process_detections: the dispatch tasks of this pass
    pass_log,            \* process_detections: what each iteration of this pass decided
    \* ---- application tasks (Application in cryptowatcher.py) ----
    pairs,               \* Market.pairs
    has_ticks,           \* the pairs with tick data and derived data in Market
    data_lock,           \* the task that holds Market.data_lock, "none" if free
    pairs_refreshed,     \* Application.pairs_refreshed is set
    data_refreshed,      \* Application.data_refreshed is set
    first_refresh_completed, \* Application.first_refresh_completed is set
    pc,                  \* where each task stands
    u_step,              \* update task: the step of the cycle it is at
    t_step,              \* _process_trading: the call it is at for the current pair
    loop_done,           \* _process_trading: the pairs its loop is through with
    ticks_updated,       \* this cycle: pairs whose update_tick_data task has finished
    derived_updated,     \* this cycle: pairs update_derived_data has run for
    triggers_updated,    \* this cycle: pairs update_detection_triggers has run for
    detections_processed, \* this cycle: pairs process_detections has run for
    trades_updated,      \* this cycle: pairs trader.update_open_trades has run for
    pairs_changed,       \* history: a pairs refresh changed Market.pairs and no data refresh has ended since
    \* ---- derived data of the pair (Market) ----
    last_adjusted_close_times, \* Market.last_adjusted_close_times[pair], 0 when absent
    close_value_mas,     \* Market.close_value_mas[pair], by window
    bollinger_bands,     \* Market.bollinger_bands[pair]: the records [H, L]
    \* ---- a call of common.math.ar_moving_average ----
    ma_source,           \* the argument `source`
    ma_window_size,      \* the argument `window_size`
    ma_result,           \* the array returned, <<>> before the call returns
    ma_returned,         \* the call has returned
    \* ---- the pair change filter (Market) ----
    last_pairs,          \* Market.last_pairs[pair]; `present` is FALSE when absent
    \* ---- back-refreshes (Market.check_back_refreshes) ----
    back_log,            \* history: the back-refreshes the latest call has executed
    \* ---- the update_tick_data tasks of the update cycles, every pair ----
    market_pairs,        \* Market.pairs
    greylist,            \* Market.greylist_pairs: expiry time by pair, 0 when absent
    pair_ticks,          \* by pair: close times and values, their backups, the
                         \* pair's back-refreshes and last_update_nums
    task_result,         \* by pair: what the pair's task of this cycle returned
    finished,            \* the pairs whose task of this cycle has ended, in order
    \* ---- a call of Detector._get_detection_trigger ----
    chk_rules,           \* the rules of the condition the call evaluates
    chk_trigger,         \* the trigger the call returned; set is None before it returns
    \* ---- restarts and Detector.restore_detection_triggers, one pair ----
    clock,               \* market.close_times[pair][-1] of the latest tick
    running,             \* the application process is up
    stored_triggers,     \* the state files hold detection_triggers[pair]
    stored_stats,        \* the state files: last_update_time of the pair by time prefix, 0 when absent
    stored_time,         \* history: the close time of the update that wrote stored_triggers
    loaded_triggers,     \* pair in Detector.detection_triggers
    restore_log,         \* history: what the latest restore_detection_triggers saw and did
    \* ---- a call of Detector._detection_filter_follow ----
    fl_last,             \* Detector.last_detections[pair] by group; present is FALSE when absent
    fl_follow,           \* the 'follow' parameter of the detection
    fl_returned,         \* the call has returned
    fl_veto,             \* what the call returned: TRUE when the detection is filtered
    \* ---- a call of Detector._detection_filter_follow_all on the same inputs ----
    fa_returned,         \* the call has returned
    fa_veto,             \* what the call returned: TRUE when the detection is filtered
    \* ---- the overlap filter and the buy actions of one pair (Detector, Trader) ----
    o_time,              \* market.close_times[pair][-1]
    open_trades,         \* len(Trader.trades[pair]['open'])
    last_open_time,      \* Trader.trades[pair]['last_open_time']
    o_pc,                \* process_detections: idle, process (in its loop) or await
    o_index,             \* process_detections: index of the detection the loop is at
    o_futures,           \* process_detections: the dispatch tasks of this pass
    o_vetoed,            \* history: the detections the overlap filter vetoed in this pass
    \* ---- the max_consecutive filter and the last detections of one pair (Detector) ----
    c_time,              \* market.close_times[pair][-1]
    c_last,              \* Detector.last_detections[pair] by group; present is FALSE when absent
    c_run,               \* history: dispatches of each detection since another detection of its first group fired
    c_index,             \* process_detections: index of the detection the loop is at
    c_vetoed,            \* history: the detections the filter vetoed in this pass
    \* ---- the rule cache of an evaluation cycle when conditions share a rule (Detector) ----
    m_time,              \* market.close_times[pair][-1]
    m_ma,                \* the last value of each moving average of the pair
    m_ma_prev,           \* the value before the last of each moving average
    m_triggers,          \* Detector.detection_triggers[pair]
    m_tests,             \* history: the test trigger of each condition in the last cycle
    m_alone,             \* history: the test trigger each condition gets on an empty rule cache
    m_pc,                \* idle, or process between update_detection_triggers and process_detections
    \* ---- the saved detection triggers of one pair across restarts (Detector, Application) ----
    s_time,              \* market.close_times[pair][-1]
    s_running,           \* the process runs
    s_triggers,          \* Detector.detection_triggers[pair][detection_name]: the 'set' of each condition, empty when absent
    s_saved,             \* the 'set' of each condition in the state file of detection_triggers
    s_saved_time,        \* last_update_time in the state file of detection_stats
    s_dispatched,        \* number of dispatches of the detection's action
    s_anew,              \* history: a condition became set in the cycle of the last dispatch
    \* ---- the detection statistics and last detections of one pair (Detector) ----
    st_time,             \* market.close_times[pair][-1]
    st_last,             \* Detector.last_detections[pair]
    st_states,           \* Detector.detection_states[pair][name]['occurrence']
    st_count,            \* Detector.detection_stats[time_prefix][pair][name]['count']
    st_index,            \* process_detections: index of the detection the loop is at
    st_fired,            \* history: the detection dispatched in the last step, or the empty string
    \* ---- the triggers of one 'buy' detection under the filters and the RSI state (Detector) ----
    v_time,              \* market.close_times[pair][-1]
    v_triggers,          \* Detector.detection_triggers[pair][name]: the 'set' flag of each trigger
    v_rsi,               \* Detector.indicator_states[pair]['RSI']['descending']
    v_pc,                \* the step of the tick cycle that is next
    v_since,             \* history: the conditions a rule test has set since the triggers were last emptied
    v_dispatched,        \* history: the number of actions dispatched
    v_vetoed,            \* history: what vetoed the detection in the last step, or the empty string
    \* ---- the pairs the services hold state for (Market, Trader, Detector) ----
    y_pairs,             \* Market.pairs
    y_extra,             \* Market.extra_base_pairs
    y_watch,             \* Trader.watch_only_pairs
    y_open,              \* the pairs with Trader.trades[pair]['open'] not empty
    y_triggers,          \* the keys of Detector.detection_triggers
    y_ticks,             \* the keys of Market.close_times
    y_pc,                \* the step of the refresh and update tasks that is next
    \* ---- the greylist and the selected pairs (Market) ----
    g_now,               \* time.time()
    g_pairs,             \* Market.pairs, in the order of selection
    g_greylist,          \* Market.greylist_pairs: expiry time by pair, 0 when absent
    g_reached,           \* history: the pairs the loop of the last refresh_pairs call came to
    \* ---- one pair through update cycles at any time of the tick interval (Market) ----
    e_now,               \* time.time()
    e_ticks,             \* the tick data, backups, back-refreshes and last_update_nums of the pair
    e_in_pairs,          \* the pair is in Market.pairs
    e_greylist,          \* Market.greylist_pairs[pair]: expiry time, 0 when absent
    e_mas,               \* Market.close_value_mas[pair]
    e_bands,             \* Market.bollinger_bands[pair]
    e_pc,                \* the step of the update cycle that is next
    e_returned,          \* what update_tick_data returned in the cycle
    \* ---- the scheduled back-refreshes of the pairs (Market) ----
    q_time,              \* the last close time of the first base pair
    q_refreshes,         \* Market.back_refreshes, each entry with the number it was scheduled as
    q_tracked,           \* the keys of Market.close_times
    q_scheduled,         \* history: the number of entries scheduled so far
    q_done,              \* history: how often the ticks of each entry were fetched
    q_fetches,           \* history: the fetches of the last check_back_refreshes call
    \* ---- the moving averages of one pair, updated tick by tick (Market) ----
    i_source,            \* Market.adjusted_close_values[pair]
    i_mas,               \* Market.source_close_value_mas[pair], by window
    i_num,               \* Market.last_update_nums[pair]
    \* ---- the tick data and the adjusted series of a pair that is not a trade base pair (Market) ----
    a_now,               \* time.time()
    a_ticks,             \* the tick data of the pair; base_24hr_volumes[pair][0] goes with its close times
    a_adjusted,          \* Market.adjusted_close_values[pair]: for each element the close time of its tick
    a_derivs,            \* Market.base_24hr_volumes[pair][1]: for each element the close time of its tick
    a_last_adjusted,     \* Market.last_adjusted_close_times[pair]
    a_pc,                \* the step of the update cycle that is next
    a_cut,               \* history: the tick data have been truncated
    \* ---- Application: tasks and shutdown ----
    z_interrupt,         \* the interrupt event of common
    z_interrupts,        \* Application.interrupts
    z_pc,                \* await at which each task is suspended
    z_pairs_refreshed,   \* Application.pairs_refreshed
    z_data_refreshed,    \* Application.data_refreshed
    z_first,             \* Application.first_refresh_completed
    z_lock,              \* holder of Market.data_lock
    z_live,              \* position of Application._live and execute
    z_pools,             \* state of task_pool and render_pool
    z_shutdown           \* _shutdown has run

tickVars == <<now, close_times, close_values, close_times_backup,
              close_values_backup, in_pairs, greylist_pairs, back_refreshes,
              last_update_nums>>

detVars == <<tick_time, tick_prev_time, ma, ma_prev, eval_ma, evals_since_tick,
             detection_triggers, test_triggers, cache, detection_states,
             last_detections, rsi_descending, action_lock, dpc, d_index,
             futures, pass_log>>

appVars == <<pairs, has_ticks, data_lock, pairs_refreshed, data_refreshed,
             first_refresh_completed, pc, u_step, t_step, loop_done, ticks_updated,
             derived_updated, triggers_updated, detections_processed, trades_updated,
             pairs_changed>>

indVars == <<last_adjusted_close_times, close_value_mas, bollinger_bands>>

mathVars == <<ma_source, ma_window_size, ma_result, ma_returned>>

chgVars == <<last_pairs>>

backVars == <<back_log>>

updVars == <<market_pairs, greylist, pair_ticks, task_result, finished>>

ruleVars == <<chk_rules, chk_trigger>>

rstVars == <<clock, running, stored_triggers, stored_stats, stored_time, loaded_triggers, restore_log>>

followVars == <<fl_last, fl_follow, fl_returned, fl_veto>>

followAllVars == <<fa_returned, fa_veto>>

ovlVars == <<o_time, open_trades, last_open_time, o_pc, o_index, o_futures, o_vetoed>>

consVars == <<c_time, c_last, c_run, c_index, c_vetoed>>

memoVars == <<m_time, m_ma, m_ma_prev, m_triggers, m_tests, m_alone, m_pc>>

saveVars == <<s_time, s_running, s_triggers, s_saved, s_saved_time, s_dispatched, s_anew>>

statVars == <<st_time, st_last, st_states, st_count, st_index, st_fired>>

vetoVars == <<v_time, v_triggers, v_rsi, v_pc, v_since, v_dispatched, v_vetoed>>

syncVars == <<y_pairs, y_extra, y_watch, y_open, y_triggers, y_ticks, y_pc>>

greyVars == <<g_now, g_pairs, g_greylist, g_reached>>

earlyVars == <<e_now, e_ticks, e_in_pairs, e_greylist, e_mas, e_bands, e_pc, e_returned>>

schedVars == <<q_time, q_refreshes, q_tracked, q_scheduled, q_done, q_fetches>>

incVars == <<i_source, i_mas, i_num>>

alignVars == <<a_now, a_ticks, a_adjusted, a_derivs, a_last_adjusted, a_pc, a_cut>>

stopVars == <<z_interrupt, z_interrupts, z_pc, z_pairs_refreshed, z_data_refreshed, z_first, z_lock, z_live, z_pools, z_shutdown>>

extVars == <<indVars, mathVars, chgVars, backVars, updVars, ruleVars, rstVars, followVars, followAllVars, ovlVars, consVars, memoVars, saveVars, statVars, vetoVars, syncVars, greyVars, earlyVars, schedVars, incVars, alignVars, stopVars>>

\* What the steps of one part leave alone of the other parts' variables.
notIndVars == <<tickVars, detVars, appVars, mathVars, chgVars, backVars, updVars, ruleVars, rstVars, followVars, followAllVars, ovlVars, consVars, memoVars, saveVars, statVars, vetoVars, syncVars, greyVars, earlyVars, schedVars, incVars, alignVars, stopVars>>
notMathVars == <<tickVars, detVars, appVars, indVars, chgVars, backVars, updVars, ruleVars, rstVars, followVars, followAllVars, ovlVars, consVars, memoVars, saveVars, statVars, vetoVars, syncVars, greyVars, earlyVars, schedVars, incVars, alignVars, stopVars>>
notChgVars == <<tickVars, detVars, appVars, indVars, mathVars, backVars, updVars, ruleVars, rstVars, followVars, followAllVars, ovlVars, consVars, memoVars, saveVars, statVars, vetoVars, syncVars, greyVars, earlyVars, schedVars, incVars, alignVars, stopVars>>
notBackVars == <<detVars, appVars, indVars, mathVars, chgVars, updVars, ruleVars, rstVars, followVars, followAllVars, ovlVars, consVars, memoVars, saveVars, statVars, vetoVars, syncVars, greyVars, earlyVars, schedVars, incVars, alignVars, stopVars>>
notUpdVars == <<detVars, appVars, indVars, mathVars, chgVars, backVars, ruleVars, rstVars, followVars, followAllVars, ovlVars, consVars, memoVars, saveVars, statVars, vetoVars, syncVars, greyVars, earlyVars, schedVars, incVars, alignVars, stopVars>>
notRuleVars == <<tickVars, detVars, appVars, indVars, mathVars, chgVars, backVars, updVars, rstVars, followVars, followAllVars, ovlVars, consVars, memoVars, saveVars, statVars, vetoVars, syncVars, greyVars, earlyVars, schedVars, incVars, alignVars, stopVars>>
notRstVars == <<tickVars, detVars, appVars, indVars, mathVars, chgVars, backVars, updVars, ruleVars, followVars, followAllVars, ovlVars, consVars, memoVars, saveVars, statVars, vetoVars, syncVars, greyVars, earlyVars, schedVars, incVars, alignVars, stopVars>>
notFollowVars == <<tickVars, detVars, appVars, indVars, mathVars, chgVars, backVars, updVars, ruleVars, rstVars, followAllVars, ovlVars, consVars, memoVars, saveVars, statVars, vetoVars, syncVars, greyVars, earlyVars, schedVars, incVars, alignVars, stopVars>>
notFollowAllVars == <<tickVars, detVars, appVars, indVars, mathVars, chgVars, backVars, updVars, ruleVars, rstVars, followVars, ovlVars, consVars, memoVars, saveVars, statVars, vetoVars, syncVars, greyVars, earlyVars, schedVars, incVars, alignVars, stopVars>>
notOvlVars == <<tickVars, detVars, appVars, indVars, mathVars, chgVars, backVars, updVars, ruleVars, rstVars, followVars, followAllVars, consVars, memoVars, saveVars, statVars, vetoVars, syncVars, greyVars, earlyVars, schedVars, incVars, alignVars, stopVars>>
notConsVars == <<tickVars, detVars, appVars, indVars, mathVars, chgVars, backVars, updVars, ruleVars, rstVars, followVars, followAllVars, ovlVars, memoVars, saveVars, statVars, vetoVars, syncVars, greyVars, earlyVars, schedVars, incVars, alignVars, stopVars>>
notMemoVars == <<tickVars, detVars, appVars, indVars, mathVars, chgVars, backVars, updVars, ruleVars, rstVars, followVars, followAllVars, ovlVars, consVars, saveVars, statVars, vetoVars, syncVars, greyVars, earlyVars, schedVars, incVars, alignVars, stopVars>>
notSaveVars == <<tickVars, detVars, appVars, indVars, mathVars, chgVars, backVars, updVars, ruleVars, rstVars, followVars, followAllVars, ovlVars, consVars, memoVars, statVars, vetoVars, syncVars, greyVars, earlyVars, schedVars, incVars, alignVars, stopVars>>
notVetoVars == <<tickVars, detVars, appVars, indVars, mathVars, chgVars, backVars, updVars, ruleVars, rstVars, followVars, followAllVars, ovlVars, consVars, memoVars, saveVars, statVars, syncVars, greyVars, earlyVars, schedVars, incVars, alignVars, stopVars>>
notStatVars == <<tickVars, detVars, appVars, indVars, mathVars, chgVars, backVars, updVars, ruleVars, rstVars, followVars, followAllVars, ovlVars, consVars, memoVars, saveVars, vetoVars, syncVars, greyVars, earlyVars, schedVars, incVars, alignVars, stopVars>>
notGreyVars == <<tickVars, detVars, appVars, indVars, mathVars, chgVars, backVars, updVars, ruleVars, rstVars, followVars, followAllVars, ovlVars, consVars, memoVars, saveVars, statVars, vetoVars, syncVars, earlyVars, schedVars, incVars, alignVars, stopVars>>
notSyncVars == <<tickVars, detVars, appVars, indVars, mathVars, chgVars, backVars, updVars, ruleVars, rstVars, followVars, followAllVars, ovlVars, consVars, memoVars, saveVars, statVars, vetoVars, greyVars, earlyVars, schedVars, incVars, alignVars, stopVars>>
notSchedVars == <<tickVars, detVars, appVars, indVars, mathVars, chgVars, backVars, updVars, ruleVars, rstVars, followVars, followAllVars, ovlVars, consVars, memoVars, saveVars, statVars, vetoVars, syncVars, greyVars, earlyVars, incVars, alignVars, stopVars>>
notEarlyVars == <<tickVars, detVars, appVars, indVars, mathVars, chgVars, backVars, updVars, ruleVars, rstVars, followVars, followAllVars, ovlVars, consVars, memoVars, saveVars, statVars, vetoVars, syncVars, greyVars, schedVars, incVars, alignVars, stopVars>>
notAlignVars == <<tickVars, detVars, appVars, indVars, mathVars, chgVars, backVars, updVars, ruleVars, rstVars, followVars, followAllVars, ovlVars, consVars, memoVars, saveVars, statVars, vetoVars, syncVars, greyVars, earlyVars, schedVars, incVars, stopVars>>
notIncVars == <<tickVars, detVars, appVars, indVars, mathVars, chgVars, backVars, updVars, ruleVars, rstVars, followVars, followAllVars, ovlVars, consVars, memoVars, saveVars, statVars, vetoVars, syncVars, greyVars, earlyVars, schedVars, alignVars, stopVars>>
notStopVars == <<tickVars, detVars, appVars, indVars, mathVars, chgVars, backVars, updVars, ruleVars, rstVars, followVars, followAllVars, ovlVars, consVars, memoVars, saveVars, statVars, vetoVars, syncVars, greyVars, earlyVars, schedVars, incVars, alignVars>>

vars == <<tickVars, detVars, appVars, extVars>>

----------------------------------------------------------------------------
(* Bounds and configuration values of the tick store. *)

tick_interval_secs == 60
pairs_greylist_secs == 900
TruncateSlack == 60

TickGapMax == 2          \* config['tick_gap_max'] of the modelled run
MinTickLength == 3       \* Market.min_tick_length of the modelled run
BackRefreshMinSecs == 60 \* config['back_refresh_min_secs'] of the modelled run
StartTime == 330         \* time.time() at the start of the run
MaxTicks == 5            \* tick intervals the run lasts
HistLen == 3             \* raw ticks the API offers per request

MaxTime == StartTime + MaxTicks * tick_interval_secs
Prices == {120, 240}

\* The exchange's recorded close value at tick boundary t.
HistoricPrice(t) == IF (t \div tick_interval_secs) % 2 = 0 THEN 120 ELSE 240

----------------------------------------------------------------------------
(* Sequence helpers. *)

\* list.index(x): first position of x, 0 when x is absent (ValueError).
IndexOf(s, x) ==
    IF \E i \in 1..Len(s) : s[i] = x
    THEN CHOOSE i \in 1..Len(s) : s[i] = x /\ \A j \in 1..(i-1) : s[j] # x
    ELSE 0

\* s[-n:]
LastN(s, n) == IF Len(s) <= n THEN s ELSE SubSeq(s, Len(s) - n + 1, Len(s))

\* del s[:n]
DropN(s, n) == IF n <= 0 THEN s ELSE SubSeq(s, n + 1, Len(s))

Last(s) == s[Len(s)]

----------------------------------------------------------------------------
(* Tick store: pure parts of Market (core/market.py). *)

\* Market._get_tick_delta: <<close_time, tick_gap>>, or NoDelta for (None, None).
NoDelta == <<-1, -1>>

TickGapOf(delta_seconds) == delta_seconds \div tick_interval_secs

_get_tick_delta(times, current_time) ==
    IF Len(times) = 0 THEN NoDelta
    ELSE LET last_time == Last(times)
             close_time == current_time - (current_time % tick_interval_secs)
             delta_seconds == close_time - last_time
         IN  IF close_time < last_time THEN NoDelta
             ELSE IF delta_seconds = 0 THEN NoDelta
             ELSE IF delta_seconds > tick_interval_secs
                  THEN <<close_time, TickGapOf(delta_seconds)>>
                  ELSE <<close_time, 0>>

\* Market._restore_ticks: the loop from `index` on; the result is
\* [times, values, interpolated].
RECURSIVE RestoreLoop(_, _, _, _, _, _, _, _, _)
RestoreLoop(times, values, btimes, bvalues, num, index, last_value, end_value, interpolated) ==
    IF index >= num
    THEN [times |-> times, values |-> values, interpolated |-> interpolated]
    ELSE LET timestamp == Last(times) + tick_interval_secs
             time_index == IndexOf(btimes, timestamp)
             value_step == (end_value - last_value) \div (num - index + 1)
             value == IF time_index # 0 THEN bvalues[time_index]
                      ELSE last_value + value_step
         IN  RestoreLoop(Append(times, timestamp), Append(values, value),
                         btimes, bvalues, num, index + 1, last_value, end_value,
                         IF time_index # 0 THEN interpolated ELSE interpolated + 1)

_restore_ticks(times, values, btimes, bvalues, num, end_value) ==
    IF num = 0
    THEN [times |-> times, values |-> values, interpolated |-> 0]
    ELSE RestoreLoop(times, values, btimes, bvalues, num, 0, Last(values), end_value, 0)

\* Market._truncate_tick_data
_truncate_tick_data(s) ==
    LET truncate == Len(s) - MinTickLength
    IN  IF truncate > TruncateSlack THEN DropN(s, truncate) ELSE s

\* Market._backup_tick_data: s[-min_tick_length:]
_backup_tick_data(s) == LastN(s, MinTickLength)

\* Market._schedule_back_refresh: the delay before the refresh is due, given the
\* value j of random.random() * future_secs / 2.
FutureSecs(num) ==
    LET base == tick_interval_secs * num * 2
    IN  IF base < BackRefreshMinSecs THEN BackRefreshMinSecs + base \div 2 ELSE base

_schedule_back_refresh(refreshes, times, num, current_time, jitter) ==
    IF num > 0
    THEN Append(refreshes,
                [start |-> times[Len(times) - num + 1],
                 end   |-> Last(times) + tick_interval_secs,
                 time  |-> current_time + FutureSecs(num) + jitter])
    ELSE refreshes

\* Market._expand_ticks: raw ticks are records [T, C]; the result is
\* [times, values].
RECURSIVE FillGap(_, _, _, _, _)
FillGap(times, values, last_time, last_value, close_time) ==
    IF close_time - last_time > tick_interval_secs
    THEN FillGap(Append(times, last_time + tick_interval_secs),
                 Append(values, last_value),
                 last_time + tick_interval_secs, last_value, close_time)
    ELSE [times |-> times, values |-> values]

RECURSIVE ExpandLoop(_, _, _, _)
ExpandLoop(ticks, i, times, values) ==
    IF i > Len(ticks) THEN [times |-> times, values |-> values]
    ELSE LET filled == FillGap(times, values, Last(times), Last(values), ticks[i].T)
         IN  ExpandLoop(ticks, i + 1, Append(filled.times, ticks[i].T),
                        Append(filled.values, ticks[i].C))

_expand_ticks(ticks) == ExpandLoop(ticks, 2, <<ticks[1].T>>, <<ticks[1].C>>)

\* Market._splice_backup_tick_data: the spliced [times, values]; `raised` is
\* TRUE when times.index raises ValueError, and the arrays are then unchanged.
RECURSIVE SpliceLoop(_, _, _, _, _, _, _, _)
SpliceLoop(times, values, btimes, bvalues, current_time, left, new_times, new_values) ==
    IF left = 0
    THEN [times |-> new_times, values |-> new_values, raised |-> FALSE]
    ELSE LET bi == IndexOf(btimes, current_time)
             ti == IndexOf(times, current_time)
         IN  IF bi = 0 /\ ti = 0
             THEN [times |-> times, values |-> values, raised |-> TRUE]
             ELSE SpliceLoop(times, values, btimes, bvalues,
                             current_time + tick_interval_secs, left - 1,
                             Append(new_times, current_time),
                             Append(new_values,
                                    IF bi # 0 THEN bvalues[bi] ELSE values[ti]))

_splice_backup_tick_data(times, values, btimes, bvalues) ==
    IF Len(btimes) = 0 \/ Len(bvalues) = 0
    THEN [times |-> times, values |-> values, raised |-> FALSE]
    ELSE LET backup_start == btimes[1]
             backup_end == Last(btimes)
             start == times[1]
             end == Last(times)
             end_time == IF end > backup_end THEN end ELSE backup_end
             start_0 == IF start < backup_start THEN start ELSE backup_start
             start_time ==
                 IF end_time - start_0 > MinTickLength * tick_interval_secs
                 THEN end_time - MinTickLength * tick_interval_secs
                 ELSE start_0
             length == (end_time - start_time) \div tick_interval_secs
         IN  IF backup_start > end \/ start > backup_end
             THEN [times |-> times, values |-> values, raised |-> FALSE]
             ELSE SpliceLoop(times, values, btimes, bvalues, start_time, length,
                             <<>>, <<>>)


----------------------------------------------------------------------------
(* Tick store: the operations of Market on one pair. *)

\* api.get_ticks: the exchange's ticks ending at `end`, the ticks `skipped`
\* intervals before the end missing (the exchange leaves out empty intervals).
RawTicks(end, skipped) ==
    LET all == [i \in 1..HistLen |->
                   [T |-> end - (HistLen - i) * tick_interval_secs,
                    C |-> HistoricPrice(end - (HistLen - i) * tick_interval_secs)]]
        Kept(t) == (end - t.T) \div tick_interval_secs \notin skipped
    IN  SelectSeq(all, Kept)

TickInit ==
    /\ now = StartTime
    /\ close_times = <<>>
    /\ close_values = <<>>
    /\ close_times_backup = <<>>
    /\ close_values_backup = <<>>
    /\ in_pairs = FALSE
    /\ greylist_pairs = 0
    /\ back_refreshes = <<>>
    /\ last_update_nums = 0

\* The clock: time.time() moves on between two calls.
Advance(dt) ==
    /\ now + dt <= MaxTime
    /\ now' = now + dt
    /\ UNCHANGED <<close_times, close_values, close_times_backup,
                   close_values_backup, in_pairs, greylist_pairs,
                   back_refreshes, last_update_nums>>
    /\ UNCHANGED <<detVars, appVars, extVars>>

\* Market.refresh_pairs with Market._handle_greylisted, for this pair: `listed`
\* is whether the market summaries let the pair through the volume filters.
refresh_pairs(listed) ==
    LET expired == greylist_pairs # 0 /\ now >= greylist_pairs
        greylisted == greylist_pairs # 0 /\ ~expired
    IN  /\ greylist_pairs' = IF expired THEN 0 ELSE greylist_pairs
        /\ in_pairs' = (listed /\ ~greylisted)
        /\ in_pairs' # in_pairs \/ greylist_pairs' # greylist_pairs
        /\ UNCHANGED <<now, close_times, close_values, close_times_backup,
                       close_values_backup, back_refreshes, last_update_nums>>
    /\ UNCHANGED <<detVars, appVars, extVars>>

\* Application._clean_tick_data: the data of a pair no longer tracked is deleted.
_clean_tick_data ==
    /\ ~in_pairs
    /\ Len(close_times) > 0
    /\ close_times' = <<>>
    /\ close_values' = <<>>
    /\ close_times_backup' = <<>>
    /\ close_values_backup' = <<>>
    /\ UNCHANGED <<now, in_pairs, greylist_pairs, back_refreshes, last_update_nums>>
    /\ UNCHANGED <<detVars, appVars, extVars>>

\* Market.refresh_tick_data for a pair without tick data. `lag` is how many
\* intervals the exchange's history is behind, `skipped` the intervals it left out,
\* `ok` whether the API returned ticks.
refresh_tick_data(ok, lag, skipped) ==
    /\ in_pairs
    /\ Len(close_times) = 0
    /\ LET has_backup == Len(close_times_backup) > 0 /\ Len(close_values_backup) > 0
       IN  IF has_backup /\ Last(close_times_backup) >= now - tick_interval_secs * 2
           THEN /\ close_times' = close_times_backup
                /\ close_values' = close_values_backup
           ELSE IF ~ok
           THEN UNCHANGED <<close_times, close_values>>
           ELSE LET end == (now - (now % tick_interval_secs)) - lag * tick_interval_secs
                    expanded == _expand_ticks(RawTicks(end, skipped))
                    times == _truncate_tick_data(expanded.times)
                    values == _truncate_tick_data(expanded.values)
                    spliced == _splice_backup_tick_data(times, values,
                                   close_times_backup, close_values_backup)
                IN  /\ close_times' = spliced.times
                    /\ close_values' = spliced.values
    /\ close_times' # close_times
    /\ UNCHANGED <<now, close_times_backup, close_values_backup, in_pairs,
                   greylist_pairs, back_refreshes, last_update_nums>>
    /\ UNCHANGED <<detVars, appVars, extVars>>

\* Market.update_tick_data. `close_value` is what api.get_last_values returns
\* (0 for None), `jitter` the random scatter of a scheduled back-refresh.
update_tick_data(close_value, jitter) ==
    /\ in_pairs
    /\ Len(close_times) > 0
    /\ LET delta == _get_tick_delta(close_times, now)
           close_time == delta[1]
           tick_gap == delta[2]
       IN  IF delta = NoDelta
           THEN /\ last_update_nums' = 0
                /\ UNCHANGED <<close_times, close_values, close_times_backup,
                               close_values_backup, in_pairs, greylist_pairs,
                               back_refreshes>>
           ELSE IF tick_gap > TickGapMax
           THEN /\ last_update_nums' = 0
                /\ in_pairs' = FALSE
                /\ greylist_pairs' = IF greylist_pairs = 0
                                     THEN now + pairs_greylist_secs
                                     ELSE greylist_pairs
                /\ UNCHANGED <<close_times, close_values, close_times_backup,
                               close_values_backup, back_refreshes>>
           ELSE IF close_value = 0
           THEN /\ last_update_nums' = 0
                /\ UNCHANGED <<close_times, close_values, close_times_backup,
                               close_values_backup, in_pairs, greylist_pairs,
                               back_refreshes>>
           ELSE LET restored == _restore_ticks(close_times, close_values,
                                    close_times_backup, close_values_backup,
                                    tick_gap, close_value)
                    times == _truncate_tick_data(Append(restored.times, close_time))
                    values == _truncate_tick_data(Append(restored.values, close_value))
                IN  /\ back_refreshes' =
                           IF restored.interpolated # 0
                           THEN _schedule_back_refresh(back_refreshes, restored.times,
                                    tick_gap, now, IF jitter THEN FutureSecs(tick_gap) \div 4 ELSE 0)
                           ELSE back_refreshes
                    /\ close_times' = times
                    /\ close_values' = values
                    /\ last_update_nums' = tick_gap + 1
                    /\ close_times_backup' = _backup_tick_data(times)
                    /\ close_values_backup' = _backup_tick_data(values)
                    /\ UNCHANGED <<in_pairs, greylist_pairs>>
    /\ UNCHANGED now
    /\ UNCHANGED <<detVars, appVars, extVars>>

\* A restart of the process: what Market holds in memory is lost, the tick
\* backups and the scheduled back-refreshes are restored from disk.
Restart ==
    /\ Len(close_times) > 0
    /\ close_times' = <<>>
    /\ close_values' = <<>>
    /\ in_pairs' = FALSE
    /\ greylist_pairs' = 0
    /\ last_update_nums' = 0
    /\ UNCHANGED <<now, close_times_backup, close_values_backup, back_refreshes>>
    /\ UNCHANGED <<detVars, appVars, extVars>>

TickNext ==
    \/ \E dt \in {tick_interval_secs, 2 * tick_interval_secs, (TickGapMax + 2) * tick_interval_secs} : Advance(dt)
    \/ \E listed \in BOOLEAN : refresh_pairs(listed)
    \/ _clean_tick_data
    \/ \E ok \in BOOLEAN, lag \in 0..1, skipped \in SUBSET (1..(HistLen - 1)) : refresh_tick_data(ok, lag, skipped)
    \/ \E close_value \in Prices \cup {0}, jitter \in BOOLEAN : update_tick_data(close_value, jitter)
    \/ Restart

\* C1: the stored close times of the pair are dense: consecutive times differ
\* by exactly one tick interval (no gap, no duplicate timestamp), after any
\* sequence of refresh_tick_data and update_tick_data calls.
TickDensity ==
    \A i \in 1..(Len(close_times) - 1) :
        close_times[i + 1] - close_times[i] = tick_interval_secs

(***************************************************************************)
(* Detector (src/core/detector.py) for one pair.                           *)
(***************************************************************************)

None == -1

\* Indexes into config['ma_windows'].
Windows == 0..2

\* config['detection_flash_crash_sens'] = 0.5, as a fraction.
detection_flash_crash_sens_num == 1
detection_flash_crash_sens_den == 2

\* config['trade_use_indicators'] and config['enable_rsi'] of the default configuration.
trade_use_indicators == FALSE
enable_rsi == FALSE

DetStartTime == 60   \* close time of the first tick the detector sees
MaxDetTicks == 4     \* ticks that follow it
MaxEvalsPerTick == 2 \* evaluation cycles that may run on one tick
MaxTime_Det == DetStartTime + MaxDetTicks * tick_interval_secs

\* The defaults of Detector._get_detection_process_params, and of
\* _update_detection_stats for 'groups' and 'type'.
DefaultParams ==
    [action |-> "alert", occurrence |-> 1, groups |-> <<"default">>, type |-> "default",
     time_frame_min |-> None, time_frame_max |-> None,
     value_range_min |-> None, value_range_max |-> None, distance_range |-> None,
     max_consecutive |-> None, overlap |-> None, follow |-> None,
     follow_all |-> None, follow_trade |-> None]

\* config['detections'] of the modelled run, in the order of the configuration.
DetectionNames == <<"cross", "timed", "twice">>

detections ==
    [cross |-> [conditions |-> << << <<"ma_crossover", 1, 0>> >>,
                                  << <<"ma_position", 2, 1>> >> >>,
                action |-> "shout"],
     timed |-> [conditions |-> << << <<"ma_position", 0, 1>> >>,
                                  << <<"ma_position", 2, 0>> >> >>,
                action |-> "buy",
                time_frame_min |-> tick_interval_secs,
                time_frame_max |-> tick_interval_secs],
     twice |-> [conditions |-> << << <<"ma_position", 0, 1>> >>,
                                  << <<"ma_position", 2, 0>> >> >>,
                action |-> "none",
                time_frame_min |-> tick_interval_secs,
                occurrence |-> 2]]

DetectionSet == {DetectionNames[i] : i \in 1..Len(DetectionNames)}

Groups == {"default"}

\* The keys of Detector.action_methods; "shout", the action of the detection
\* "cross", is not among them.
action_methods ==
    {"none", "alert", "buy", "holdbuy", "rebuy", "sellpush", "pushrelease",
     "softsell", "hardsell", "dumpsell", "softstop", "hardstop", "stophold",
     "refillon", "refilloff", "buyon", "buyoff", "pullout", "reset"}

\* Detector.get_detection_params.
get_detection_params(detection_name) == detections[detection_name] @@ DefaultParams

AllRules ==
    UNION {UNION {{detections[d].conditions[c][r] : r \in 1..Len(detections[d].conditions[c])} :
                  c \in 1..Len(detections[d].conditions)} : d \in DetectionSet}

\* MA values: 0 is a value math.isclose() takes for zero (not enough data yet).
MaLevels == {1, 2}
NoMa == [w \in Windows |-> 0]
MaVectors == [Windows -> MaLevels]

RECURSIVE SumSeq(_)
SumSeq(s) == IF s = <<>> THEN 0 ELSE s[1] + SumSeq(Tail(s))

SeqMax(s) == CHOOSE x \in {s[i] : i \in 1..Len(s)} : \A j \in 1..Len(s) : s[j] <= x
SeqMin(s) == CHOOSE x \in {s[i] : i \in 1..Len(s)} : \A j \in 1..Len(s) : s[j] >= x

\* ---- rule evaluators --------------------------------------------------

NoEntry == [hit |-> FALSE, state |-> None, positions |-> <<>>]
EmptyCache == [r \in AllRules |-> NoEntry]

CacheResult(rcache, rule, state, positions) ==
    [state |-> state, positions |-> positions,
     cache |-> [rcache EXCEPT ![rule] = [hit |-> TRUE, state |-> state, positions |-> positions]]]

\* Detector._check_ma_position: (state, metadata) and the rule cache after the call.
_check_ma_position(rule, rcache) ==
    IF rcache[rule].hit
    THEN [state |-> rcache[rule].state, positions |-> rcache[rule].positions, cache |-> rcache]
    ELSE IF Len(rule) < 3 \/ rule[2] \notin Windows \/ rule[3] \notin Windows
    THEN [state |-> None, positions |-> <<>>, cache |-> rcache]
    ELSE IF ma[rule[2]] = 0 \/ ma[rule[3]] = 0
    THEN [state |-> 0, positions |-> <<>>, cache |-> rcache]
    ELSE CacheResult(rcache, rule, IF ma[rule[2]] < ma[rule[3]] THEN 0 ELSE 1, <<>>)

\* Detector._check_ma_crossover: the previous position is read from the stored
\* trigger of the condition, detection_triggers[pair][name][condition_index].
_check_ma_crossover(rule, condition_index, detection_name, rcache) ==
    IF rcache[rule].hit
    THEN [state |-> rcache[rule].state, positions |-> rcache[rule].positions, cache |-> rcache]
    ELSE IF rule[2] \notin Windows \/ rule[3] \notin Windows
    THEN [state |-> None, positions |-> <<>>, cache |-> rcache]
    ELSE IF ma_prev[rule[2]] = 0 \/ ma_prev[rule[3]] = 0
    THEN [state |-> 0, positions |-> <<0>>, cache |-> rcache]
    ELSE IF ma[rule[2]] < ma[rule[3]]
    THEN CacheResult(rcache, rule, 0, <<0>>)
    ELSE LET stored == detection_triggers[detection_name]
             ma_crossover ==
                 IF /\ condition_index <= Len(stored)
                    /\ Len(stored[condition_index].ma_positions) > 0
                    /\ stored[condition_index].ma_positions[1] = 0
                 THEN 1 ELSE 0
         IN  CacheResult(rcache, rule, ma_crossover, <<1>>)

\* Detector.check_methods, as _get_detection_trigger calls it. rule[0] of an
\* empty tuple raises IndexError and a name that is not a key of check_methods
\* raises KeyError; _get_detection_trigger catches both, logs a warning and
\* appends no state.
check_methods(rule, condition_index, detection_name, rcache) ==
    CASE rule # <<>> /\ rule[1] = "ma_position" -> _check_ma_position(rule, rcache)
      [] rule # <<>> /\ rule[1] = "ma_crossover" ->
             _check_ma_crossover(rule, condition_index, detection_name, rcache)
      [] OTHER -> [state |-> None, positions |-> <<>>, cache |-> rcache]

\* Detector._get_detection_trigger: its loop over the rules of the condition.
RECURSIVE RuleLoop(_, _, _, _, _, _, _)
RuleLoop(rules, detection_name, condition_index, i, states, positions, rcache) ==
    IF i > Len(rules)
    THEN [trigger |-> [time |-> tick_time,
                       set |-> IF SumSeq(states) = Len(states) THEN 1 ELSE 0,
                       ma_positions |-> positions],
          cache |-> rcache]
    ELSE LET r == check_methods(rules[i], condition_index, detection_name, rcache)
         IN  IF r.state # None
             THEN RuleLoop(rules, detection_name, condition_index, i + 1,
                           Append(states, r.state), positions \o r.positions, r.cache)
             ELSE RuleLoop(rules, detection_name, condition_index, i + 1,
                           states, positions, r.cache)

\* Detector._get_detection_trigger: the trigger and the rule cache after the call.
_get_detection_trigger(detection_name, condition_index, rcache) ==
    RuleLoop(detections[detection_name].conditions[condition_index],
             detection_name, condition_index, 1, <<>>, <<>>, rcache)

\* ---- update_detection_triggers ----------------------------------------

\* A detector without sticky conditions: the test trigger replaces the old one.
KeepTrigger_unsticky(old_trigger, test_trigger) == test_trigger

\* A detector that never moves the time of a condition that holds again.
KeepTrigger_stale(old_trigger, test_trigger) == old_trigger

\* update_detection_triggers, a condition that is already set: the old trigger
\* is kept, its time moves to the test trigger's when the condition holds again.
KeepTrigger(old_trigger, test_trigger) ==
    IF test_trigger.set # 0
    THEN [old_trigger EXCEPT !.time = test_trigger.time]
    ELSE old_trigger

RECURSIVE ConditionLoop(_, _, _, _, _)
ConditionLoop(detection_name, condition_index, triggers, tests, rcache) ==
    IF condition_index > Len(detections[detection_name].conditions)
    THEN [triggers |-> triggers, tests |-> tests, cache |-> rcache]
    ELSE LET stored == detection_triggers[detection_name]
             already_set == IF condition_index <= Len(stored)
                            THEN stored[condition_index].set ELSE 0
             got == _get_detection_trigger(detection_name, condition_index, rcache)
             trigger == IF already_set # 0
                        THEN KeepTrigger(stored[condition_index], got.trigger)
                        ELSE got.trigger
         IN  ConditionLoop(detection_name, condition_index + 1,
                           Append(triggers, trigger), Append(tests, got.trigger), got.cache)

RECURSIVE DetectionLoop(_, _, _, _)
DetectionLoop(i, out, tests, rcache) ==
    IF i > Len(DetectionNames)
    THEN [triggers |-> out, tests |-> tests, cache |-> rcache]
    ELSE LET r == ConditionLoop(DetectionNames[i], 1, <<>>, <<>>, rcache)
         IN  DetectionLoop(i + 1, [out EXCEPT ![DetectionNames[i]] = r.triggers],
                           [tests EXCEPT ![DetectionNames[i]] = r.tests], r.cache)

NoTriggers == [d \in DetectionSet |-> <<>>]

\* ---- process_detections -----------------------------------------------

\* Detector._timeout_triggers.
_timeout_triggers(params, triggers, current_time) ==
    IF params.time_frame_max # None
    THEN [i \in 1..Len(triggers) |->
             IF current_time - triggers[i].time > params.time_frame_max
             THEN [triggers[i] EXCEPT !.set = 0]
             ELSE triggers[i]]
    ELSE triggers

\* Detector._aggregate_trigger_data, with trigger_data['current_time'].
_aggregate_trigger_data(triggers, current_time) ==
    [set_triggers |-> [i \in 1..Len(triggers) |-> triggers[i].set],
     times |-> [i \in 1..Len(triggers) |-> triggers[i].time],
     time_frame |-> None,
     current_time |-> current_time]

\* Detector._set_triggers_time_frame.
_set_triggers_time_frame(triggers, trigger_data) ==
    IF Len(triggers) > 0
    THEN [trigger_data EXCEPT !.time_frame =
             SeqMax([i \in 1..Len(triggers) |-> triggers[i].time])
             - SeqMin([i \in 1..Len(triggers) |-> triggers[i].time])]
    ELSE trigger_data

NoLast == [present |-> FALSE, name |-> "", type |-> "None", count |-> 0, time |-> 0]

RECURSIVE GroupLoop(_, _, _, _, _)
GroupLoop(last, detection_name, detection_type, current_time, i) ==
    LET params == get_detection_params(detection_name)
    IN  IF i > Len(params.groups) THEN last
        ELSE LET group == params.groups[i]
                 old == IF last[group].present THEN last[group]
                        ELSE [NoLast EXCEPT !.present = TRUE]
                 new == IF last[group].present /\ old.name = detection_name
                        THEN [old EXCEPT !.count = @ + 1, !.time = current_time]
                        ELSE [old EXCEPT
                                 !.type = IF old.type # params.type
                                          THEN (IF detection_type # "None"
                                                THEN detection_type ELSE params.type)
                                          ELSE old.type,
                                 !.name = detection_name,
                                 !.count = 1,
                                 !.time = current_time]
             IN  GroupLoop([last EXCEPT ![group] = new], detection_name,
                           detection_type, current_time, i + 1)

\* An update that starts the count of the record over on every call.
_update_detection_stats_reset(last, detection_name, detection_type, current_time) ==
    LET updated == GroupLoop(last, detection_name, detection_type, current_time, 1)
        groups == get_detection_params(detection_name).groups
    IN  [g \in DOMAIN last |->
            IF g \in {groups[i] : i \in 1..Len(groups)}
            THEN [updated[g] EXCEPT !.count = 1] ELSE updated[g]]

\* Detector._update_detection_stats: last_detections[pair] after the call.
_update_detection_stats(last, detection_name, detection_type, current_time) ==
    GroupLoop(last, detection_name, detection_type, current_time, 1)

\* Detector.filter_methods, in its order.
filter_methods ==
    <<"value_range_min", "value_range_max", "time_frame_min", "distance_range",
      "max_consecutive", "follow", "follow_all", "follow_trade", "overlap", "occurrence">>

\* Detector._detection_filter_time_frame.
_detection_filter_time_frame(detection_name, trigger_data) ==
    IF SumSeq(trigger_data.set_triggers) <= 1 THEN FALSE
    ELSE LET params == get_detection_params(detection_name)
         IN  /\ params.time_frame_min # None
             /\ params.time_frame_min # 0
             /\ trigger_data.time_frame < params.time_frame_min

\* Detector._detection_filter_occurrence: the verdict and the state it leaves.
_detection_filter_occurrence(detection_name, trigger_data, s) ==
    LET params == get_detection_params(detection_name)
        occurrence == s.occurrence + 1
    IN  IF occurrence < params.occurrence
        THEN [veto |-> TRUE,
              s |-> [s EXCEPT !.occurrence = occurrence,
                              !.last = _update_detection_stats(s.last, detection_name,
                                           "skip", trigger_data.current_time)]]
        ELSE [veto |-> FALSE, s |-> [s EXCEPT !.occurrence = 0]]

\* One entry of Detector.filter_methods applied.
FilterMethod(param, detection_name, trigger_data, s) ==
    CASE param = "time_frame_min" ->
             [veto |-> _detection_filter_time_frame(detection_name, trigger_data), s |-> s]
      [] param = "occurrence" ->
             _detection_filter_occurrence(detection_name, trigger_data, s)

\* A filter loop that goes on to the later filters after a veto.
RECURSIVE FilterLoop_all(_, _, _, _)
FilterLoop_all(i, detection_name, trigger_data, s) ==
    IF i > Len(filter_methods) THEN s
    ELSE IF get_detection_params(detection_name)[filter_methods[i]] = None
    THEN FilterLoop_all(i + 1, detection_name, trigger_data, s)
    ELSE LET r == FilterMethod(filter_methods[i], detection_name, trigger_data, s)
         IN  FilterLoop_all(i + 1, detection_name, trigger_data,
                            IF r.veto \/ ~s.triggered
                            THEN [r.s EXCEPT !.triggers = <<>>, !.triggered = FALSE]
                            ELSE r.s)

\* Detector._filter_detection: its loop over filter_methods, which breaks once
\* a filter has vetoed.
RECURSIVE FilterLoop(_, _, _, _)
FilterLoop(i, detection_name, trigger_data, s) ==
    IF i > Len(filter_methods) \/ ~s.triggered THEN s
    ELSE IF get_detection_params(detection_name)[filter_methods[i]] = None
    THEN FilterLoop(i + 1, detection_name, trigger_data, s)
    ELSE LET r == FilterMethod(filter_methods[i], detection_name, trigger_data, s)
         IN  FilterLoop(i + 1, detection_name, trigger_data,
                        IF r.veto
                        THEN [r.s EXCEPT !.triggers = <<>>, !.triggered = FALSE]
                        ELSE r.s)

\* Detector._filter_detection: s.triggered is `not` its return value.
_filter_detection(detection_name, params, triggers, trigger_data) ==
    LET triggered == SumSeq(trigger_data.set_triggers) = Len(trigger_data.set_triggers)
        data == IF triggered THEN _set_triggers_time_frame(triggers, trigger_data)
                ELSE trigger_data
        s == FilterLoop(1, detection_name, data,
                 [triggered |-> triggered, triggers |-> triggers,
                  occurrence |-> detection_states[detection_name],
                  last |-> last_detections])
        rsi_skip == /\ s.triggered
                    /\ trade_use_indicators
                    /\ params.action \in {"buy", "rebuy"}
                    /\ enable_rsi
                    /\ rsi_descending
    IN  [triggered |-> s.triggered /\ ~rsi_skip,
         all_set |-> triggered,
         triggers |-> IF rsi_skip THEN <<>> ELSE s.triggers,
         occurrence |-> s.occurrence,
         last |-> s.last,
         trigger_data |-> data]

\* process_detections: the flash crash guard.
FlashCrash ==
    tick_time * detection_flash_crash_sens_den <= tick_prev_time * detection_flash_crash_sens_num

\* A detector that dispatches the action of a passed detection twice.
Dispatch_twice(futs, task) == Append(Append(futs, task), task)

\* process_detections: the dispatch of a passed detection, futures.append(future).
Dispatch(futs, task) == Append(futs, task)

\* A detector that leaves the triggers of a fired detection in place.
ClearTriggers_kept(triggers) == triggers

\* process_detections: self.detection_triggers[pair][detection_name] = [].
ClearTriggers(triggers) == <<>>

\* A dispatcher that does not wait for the action lock.
CanAcquire_unlocked(locked) == TRUE

\* Detector.acquire_action_lock: asyncio.Lock.acquire() returns when the lock is free.
CanAcquire(locked) == ~locked

\* ---- the detector's steps ---------------------------------------------

DetInit ==
    /\ tick_time = DetStartTime
    /\ tick_prev_time = DetStartTime - tick_interval_secs
    /\ ma = NoMa
    /\ ma_prev = NoMa
    /\ eval_ma = NoMa
    /\ evals_since_tick = 0
    /\ detection_triggers = NoTriggers
    /\ test_triggers = NoTriggers
    /\ cache = EmptyCache
    /\ detection_states = [d \in DetectionSet |-> 0]
    /\ last_detections = [g \in Groups |-> NoLast]
    /\ rsi_descending = FALSE
    /\ action_lock = FALSE
    /\ dpc = "idle"
    /\ d_index = 1
    /\ futures = <<>>
    /\ pass_log = <<>>

\* A cycle of the update task brought new tick data for the pair: `n` intervals
\* have passed since the last stored tick. With n > 1 update_tick_data restores
\* n ticks and appends the new one at the time of the last restored tick.
NewTick(n, new_ma, mid_ma) ==
    /\ dpc = "idle"
    /\ tick_time + n * tick_interval_secs <= MaxTime_Det
    /\ ma # NoMa => new_ma # NoMa
    /\ tick_time' = tick_time + n * tick_interval_secs
    /\ tick_prev_time' = IF n = 1 THEN tick_time ELSE tick_time'
    /\ ma' = new_ma
    /\ ma_prev' = IF n = 1 THEN ma ELSE mid_ma
    /\ evals_since_tick' = 0
    /\ UNCHANGED <<eval_ma, detection_triggers, test_triggers, cache, detection_states,
                   last_detections, rsi_descending, action_lock, dpc, d_index,
                   futures, pass_log>>
    /\ UNCHANGED <<tickVars, appVars, extVars>>

\* Detector.update_detection_triggers(pair).
update_detection_triggers ==
    /\ dpc = "idle"
    /\ evals_since_tick < MaxEvalsPerTick
    /\ LET r == DetectionLoop(1, NoTriggers, NoTriggers, EmptyCache)
       IN  /\ detection_triggers' = r.triggers
           /\ test_triggers' = r.tests
           /\ cache' = r.cache
    /\ eval_ma' = IF ma_prev = NoMa THEN NoMa ELSE ma
    /\ evals_since_tick' = evals_since_tick + 1
    /\ dpc' = "process"
    /\ d_index' = 1
    /\ futures' = <<>>
    /\ pass_log' = <<>>
    /\ UNCHANGED <<tick_time, tick_prev_time, ma, ma_prev, detection_states,
                   last_detections, rsi_descending, action_lock>>
    /\ UNCHANGED <<tickVars, appVars, extVars>>

\* Detector.process_detections(pair): one iteration of its loop over the detections.
process_detections ==
    /\ dpc = "process"
    /\ LET detection_name == DetectionNames[d_index]
           params == get_detection_params(detection_name)
           triggers == _timeout_triggers(params, detection_triggers[detection_name], tick_time)
           trigger_data == _aggregate_trigger_data(triggers, tick_time)
           f == _filter_detection(detection_name, params, triggers, trigger_data)
           deferred == f.triggered /\ FlashCrash
           fired == f.triggered /\ ~FlashCrash
       IN  /\ detection_states' = [detection_states EXCEPT ![detection_name] = f.occurrence]
           /\ futures' = IF fired
                         THEN Dispatch(futures,
                                  [name |-> detection_name, action |-> params.action,
                                   st |-> "created", alerted |-> FALSE,
                                   time_frame |-> f.trigger_data.time_frame,
                                   current_time |-> f.trigger_data.current_time])
                         ELSE futures
           /\ last_detections' = IF fired
                                 THEN _update_detection_stats(f.last, detection_name, "None", tick_time)
                                 ELSE f.last
           /\ detection_triggers' =
                  [detection_triggers EXCEPT ![detection_name] =
                      IF fired THEN ClearTriggers(f.triggers) ELSE f.triggers]
           /\ pass_log' = Append(pass_log,
                              [name |-> detection_name, all_set |-> f.all_set,
                               vetoed |-> f.all_set /\ ~f.triggered,
                               deferred |-> deferred,
                               time_frame |-> f.trigger_data.time_frame])
    /\ IF d_index < Len(DetectionNames)
       THEN d_index' = d_index + 1 /\ dpc' = dpc
       ELSE d_index' = d_index /\ dpc' = "await"
    /\ UNCHANGED <<tick_time, tick_prev_time, ma, ma_prev, eval_ma, evals_since_tick,
                   test_triggers, cache, rsi_descending, action_lock>>
    /\ UNCHANGED <<tickVars, appVars, extVars>>

\* Detector._dispatch_detection_action up to the action: the task takes the action lock.
_dispatch_detection_action(i) ==
    /\ i \in 1..Len(futures)
    /\ futures[i].st = "created"
    /\ CanAcquire(action_lock)
    /\ action_lock' = TRUE
    /\ futures' = [futures EXCEPT ![i].st = "running"]
    /\ UNCHANGED <<tick_time, tick_prev_time, ma, ma_prev, eval_ma, evals_since_tick,
                   detection_triggers, test_triggers, cache, detection_states,
                   last_detections, rsi_descending, dpc, d_index, pass_log>>
    /\ UNCHANGED <<tickVars, appVars, extVars>>

\* A dispatcher without the `except KeyError` clause.
Handled_uncaught(outcome) == outcome = "return"

\* Detector._dispatch_detection_action: the outcomes of the `try` statement after
\* which the coroutine goes on to action_lock.release().
Handled(outcome) == outcome \in {"return", "KeyError"}

\* Detector._dispatch_detection_action from the action on. The action returns or
\* raises KeyError (the error is logged and the alert sent instead) and the lock
\* is released; any other exception leaves the coroutine before
\* action_lock.release(). The lookup of an action name that is not a key of
\* action_methods raises KeyError.
ActionEnds(i, outcome) ==
    /\ i \in 1..Len(futures)
    /\ futures[i].st = "running"
    /\ futures[i].action \notin action_methods => outcome = "KeyError"
    /\ IF Handled(outcome)
       THEN /\ futures' = [futures EXCEPT ![i].st = "done",
                                          ![i].alerted = (outcome = "KeyError")]
            /\ action_lock' = FALSE
       ELSE /\ futures' = [futures EXCEPT ![i].st = "failed"]
            /\ action_lock' = action_lock
    /\ UNCHANGED <<tick_time, tick_prev_time, ma, ma_prev, eval_ma, evals_since_tick,
                   detection_triggers, test_triggers, cache, detection_states,
                   last_detections, rsi_descending, dpc, d_index, pass_log>>
    /\ UNCHANGED <<tickVars, appVars, extVars>>

\* process_detections: `for result in asyncio.as_completed(futures): await result`
\* when every dispatch task has finished.
AwaitFutures ==
    /\ dpc = "await"
    /\ \A i \in 1..Len(futures) : futures[i].st = "done"
    /\ dpc' = "idle"
    /\ futures' = <<>>
    /\ UNCHANGED <<tick_time, tick_prev_time, ma, ma_prev, eval_ma, evals_since_tick,
                   detection_triggers, test_triggers, cache, detection_states,
                   last_detections, rsi_descending, action_lock, d_index, pass_log>>
    /\ UNCHANGED <<tickVars, appVars, extVars>>

\* process_detections: `await result` raises the exception of a failed dispatch task.
AwaitRaises ==
    /\ dpc = "await"
    /\ \E i \in 1..Len(futures) : futures[i].st = "failed"
    /\ dpc' = "raised"
    /\ UNCHANGED <<tick_time, tick_prev_time, ma, ma_prev, eval_ma, evals_since_tick,
                   detection_triggers, test_triggers, cache, detection_states,
                   last_detections, rsi_descending, action_lock, d_index, futures,
                   pass_log>>
    /\ UNCHANGED <<tickVars, appVars, extVars>>

Next ==
    \/ \E n \in 1..2, new_ma \in MaVectors \cup {NoMa}, mid \in BOOLEAN :
           NewTick(n, new_ma, IF mid THEN ma ELSE new_ma)
    \/ update_detection_triggers
    \/ process_detections
    \/ \E i \in 1..Len(DetectionNames) : _dispatch_detection_action(i)
    \/ \E i \in 1..Len(DetectionNames), outcome \in {"return", "KeyError", "raise"} :
           ActionEnds(i, outcome)
    \/ AwaitFutures
    \/ AwaitRaises

\* ---- properties of the detector ----------------------------------------

DispatchCount(name) == Cardinality({i \in 1..Len(futures) : futures[i].name = name})

Passed(entry) == entry.all_set /\ ~entry.vetoed /\ ~entry.deferred

IsUpdateStep == dpc = "idle" /\ dpc' = "process"

IsProcessStep == dpc = "process" /\ pass_log' # pass_log

\* C2: during a pass of process_detections the action of each detection the
\* loop has handled is dispatched exactly once if all its conditions were set,
\* no filter vetoed and the flash crash guard did not defer, and not at all
\* otherwise; nothing else is dispatched.
ExactlyOnceDispatch ==
    dpc # "idle" =>
        /\ \A k \in 1..Len(pass_log) :
               DispatchCount(pass_log[k].name) = IF Passed(pass_log[k]) THEN 1 ELSE 0
        /\ \A i \in 1..Len(futures) :
               \E k \in 1..Len(pass_log) : pass_log[k].name = futures[i].name

\* A pass that dispatched one detection's action and vetoed another detection.
DispatchedAndVetoed ==
    /\ dpc = "await"
    /\ \E k \in 1..Len(pass_log) :
           Passed(pass_log[k]) /\ DispatchCount(pass_log[k].name) = 1
    /\ \E k \in 1..Len(pass_log) : pass_log[k].vetoed

StickyStep ==
    IsUpdateStep =>
        \A d \in DetectionSet : \A c \in 1..Len(detection_triggers[d]) :
            detection_triggers[d][c].set = 1 =>
                /\ detection_triggers'[d][c].set = 1
                /\ test_triggers'[d][c].set = 0 =>
                       detection_triggers'[d][c] = detection_triggers[d][c]

TimeoutStep ==
    IsProcessStep =>
        LET d == DetectionNames[d_index]
            time_frame_max == get_detection_params(d).time_frame_max
            old == detection_triggers[d]
            new == detection_triggers'[d]
        IN  time_frame_max # None =>
                /\ Len(futures') > Len(futures) =>
                       \A c \in 1..Len(old) : tick_time - old[c].time <= time_frame_max
                /\ \A c \in 1..Len(new) :
                       /\ tick_time - old[c].time > time_frame_max => new[c].set = 0
                       /\ (old[c].set = 1 /\ tick_time - old[c].time <= time_frame_max)
                              => new[c].set = 1

\* C3: a trigger that is set stays set, unchanged, when its condition is
\* evaluated again and does not hold, and stays set through process_detections
\* while no more than time_frame_max has passed since its time (unless the
\* detection fires or is vetoed, which empties the list); a trigger older than
\* time_frame_max is unset by process_detections and no detection fires with one.
StickyConditions == [][StickyStep /\ TimeoutStep]_vars

\* The first condition of "timed" did not hold when it was evaluated again one
\* interval after it was set: its trigger stayed set and the detection fired.
StickyKept ==
    /\ dpc = "await"
    /\ test_triggers["timed"][1].set = 0
    /\ \E k \in 1..Len(pass_log) :
           /\ pass_log[k].name = "timed"
           /\ Passed(pass_log[k])
           /\ pass_log[k].time_frame = get_detection_params("timed").time_frame_max
    /\ DispatchCount("timed") = 1

\* C4: from the firing of a detection until the next evaluation cycle the
\* detection's trigger list for the pair is empty.
FiringClearsTriggers ==
    \A k \in 1..Len(pass_log) :
        Passed(pass_log[k]) => detection_triggers[pass_log[k].name] = <<>>

\* "cross" has just fired, the pass goes on with the next detection.
FiredAndCleared ==
    /\ dpc = "process"
    /\ \E k \in 1..Len(pass_log) :
           /\ Passed(pass_log[k])
           /\ DispatchCount(pass_log[k].name) = 1
           /\ detection_triggers[pass_log[k].name] = <<>>

\* C5: with MA data at hand, the rule ("ma_crossover", 1, 0) returns 1 in an
\* evaluation cycle exactly if MA 1 was below MA 0 at the previous evaluation
\* cycle and is at or above it now.
CrossoverEdge ==
    [][(IsUpdateStep /\ eval_ma # NoMa /\ ma_prev # NoMa) =>
           (test_triggers'["cross"][1].set = 1
               <=> (eval_ma[1] < eval_ma[0] /\ ma[1] >= ma[0]))]_vars

CrossoverStep ==
    (/\ IsUpdateStep
     /\ Len(detection_triggers["cross"]) = 2
     /\ detection_triggers["cross"][2].set = 1
     /\ eval_ma # NoMa
     /\ ma_prev # NoMa
     /\ eval_ma[1] < eval_ma[0]
     /\ ma[1] >= ma[0]
     /\ ma[2] >= ma[1])
    => /\ test_triggers'["cross"][1].set = 1
       /\ test_triggers'["cross"][2].set = 1

Condition1Fires ==
    \A k \in 1..Len(pass_log) :
        (/\ dpc # "idle"
         /\ pass_log[k].name = "cross"
         /\ test_triggers["cross"][1].set = 1
         /\ test_triggers["cross"][2].set = 1)
        => /\ pass_log[k].all_set
           /\ pass_log[k].time_frame = 0
           /\ DispatchCount("cross") = 1
           /\ \A i \in 1..Len(futures) :
                  futures[i].name = "cross" =>
                      futures[i].time_frame = 0 /\ futures[i].current_time = tick_time
           /\ detection_triggers["cross"] = <<>>

\* C6: for the detection "cross" with the conditions [("ma_crossover", 1, 0)]
\* and [("ma_position", 2, 1)]: in a cycle where MA 1 moves from below MA 0 to
\* at or above it while condition 2 is set already and still holds, the rule of
\* condition 1 returns 1 and condition 2 holds; and in a cycle where they do,
\* process_detections finds all conditions set with a time frame of 0,
\* dispatches the action exactly once and leaves the trigger list empty.
EndToEndScenario == [][CrossoverStep]_vars /\ []Condition1Fires

\* The scenario: MA 1 was below MA 0 on the tick before and is not now, MA 2 was
\* and is at or above MA 1, and "cross" was dispatched with a time frame of 0.
ScenarioFired ==
    /\ dpc # "idle"
    /\ tick_prev_time = tick_time - tick_interval_secs
    /\ ma_prev # NoMa
    /\ ma_prev[1] < ma_prev[0] /\ ma_prev[2] >= ma_prev[1]
    /\ ma[1] >= ma[0] /\ ma[2] >= ma[1]
    /\ test_triggers["cross"][1].set = 1
    /\ test_triggers["cross"][2].set = 1
    /\ \E k \in 1..Len(pass_log) : pass_log[k].name = "cross" /\ pass_log[k].time_frame = 0
    /\ DispatchCount("cross") = 1
    /\ detection_triggers["cross"] = <<>>

Running == {i \in 1..Len(futures) : futures[i].st = "running"}

\* C8: at most one detection action is executing, and it executes only while
\* the action lock is held.
ActionSerialization ==
    /\ Cardinality(Running) <= 1
    /\ Running # {} => action_lock

\* One action is executing while the dispatch task of another waits for the lock.
ActionRunsOtherWaits ==
    /\ \E i \in 1..Len(futures) : futures[i].st = "running"
    /\ \E j \in 1..Len(futures) : futures[j].st = "created"
    /\ action_lock

(***************************************************************************)
(* The application's tasks (src/cryptowatcher.py) and Market.data_lock.    *)
(***************************************************************************)

AllPairs == {"BTC-ETH", "BTC-LTC"}

\* The order of Market.pairs.
PairOrder == <<"BTC-ETH", "BTC-LTC">>

FirstOf(S) ==
    PairOrder[CHOOSE i \in 1..Len(PairOrder) :
                  PairOrder[i] \in S /\ \A j \in 1..(i - 1) : PairOrder[j] \notin S]

\* Tasks that do not wait for the data lock.
LockFree_always(holder) == TRUE

\* Market.acquire_data_lock: data_lock.acquire() returns when the lock is free.
LockFree(holder) == holder = "none"

\* An update cycle that processes trading before the market data.
CycleSteps_trading_first ==
    <<"update_tick_data", "_clean_untracked_data", "_process_trading",
      "_process_market_data", "_output_market_charts", "_ensure_startup_init",
      "check_back_refreshes">>

\* _update_data_task: what one cycle does while it holds the data lock, in order.
CycleSteps ==
    <<"update_tick_data", "_clean_untracked_data", "_process_market_data",
      "_output_market_charts", "_ensure_startup_init", "_process_trading",
      "check_back_refreshes">>

\* A trading loop that manages a pair's trades before it looks at its detections.
PairSteps_trades_first ==
    <<"update_open_trades", "update_detection_triggers", "update_indicator_states",
      "process_detections">>

\* _process_trading: the calls made for each pair, in order.
PairSteps ==
    <<"update_detection_triggers", "update_indicator_states", "process_detections",
      "update_open_trades">>

\* The pairs the cycle has data for: `pair in self.market.adjusted_close_values`,
\* `pair in self.market.close_times and self.market.close_times[pair]`.
WithData == pairs \cap has_ticks

AppInit ==
    /\ pairs = {}
    /\ has_ticks = {}
    /\ data_lock = "none"
    /\ pairs_refreshed = FALSE
    /\ data_refreshed = FALSE
    /\ first_refresh_completed = FALSE
    /\ pc = [pairs |-> "wait_interval", data |-> "wait_pairs",
             update |-> "wait_refresh", rollover |-> "acquire"]
    /\ u_step = 1
    /\ t_step = 1
    /\ loop_done = {}
    /\ ticks_updated = {}
    /\ derived_updated = {}
    /\ triggers_updated = {}
    /\ detections_processed = {}
    /\ trades_updated = {}
    /\ pairs_changed = FALSE

\* _refresh_pairs_task: the wait for half the tick interval (after the first refresh).
RefreshPairsWait ==
    /\ pc.pairs = "wait_interval"
    /\ pc' = [pc EXCEPT !.pairs = "acquire"]
    /\ UNCHANGED <<pairs, has_ticks, data_lock, pairs_refreshed, data_refreshed,
                   first_refresh_completed, u_step, t_step, loop_done, ticks_updated,
                   derived_updated, triggers_updated, detections_processed,
                   trades_updated>>
    /\ UNCHANGED pairs_changed
    /\ UNCHANGED <<tickVars, detVars, extVars>>

\* _refresh_pairs_task: acquire_data_lock.
RefreshPairsAcquire ==
    /\ pc.pairs = "acquire"
    /\ LockFree(data_lock)
    /\ data_lock' = "pairs"
    /\ pc' = [pc EXCEPT !.pairs = "refresh_pairs"]
    /\ UNCHANGED <<pairs, has_ticks, pairs_refreshed, data_refreshed,
                   first_refresh_completed, u_step, t_step, loop_done, ticks_updated,
                   derived_updated, triggers_updated, detections_processed,
                   trades_updated>>
    /\ UNCHANGED pairs_changed
    /\ UNCHANGED <<tickVars, detVars, extVars>>

\* _refresh_pairs_task: market.refresh_pairs().
RefreshPairs(new_pairs) ==
    /\ pc.pairs = "refresh_pairs"
    /\ pairs' = new_pairs
    /\ pc' = [pc EXCEPT !.pairs = "sync_pairs"]
    /\ UNCHANGED <<has_ticks, data_lock, pairs_refreshed, data_refreshed,
                   first_refresh_completed, u_step, t_step, loop_done, ticks_updated,
                   derived_updated, triggers_updated, detections_processed,
                   trades_updated>>
    /\ pairs_changed' = (pairs_changed \/ new_pairs # pairs)
    /\ UNCHANGED <<tickVars, detVars, extVars>>

\* _refresh_pairs_task: the sync_pairs calls, data_lock.release() and pairs_refreshed.set().
RefreshPairsRelease ==
    /\ pc.pairs = "sync_pairs"
    /\ data_lock' = "none"
    /\ pairs_refreshed' = TRUE
    /\ pc' = [pc EXCEPT !.pairs = "sleep"]
    /\ UNCHANGED <<pairs, has_ticks, data_refreshed, first_refresh_completed, u_step,
                   t_step, loop_done, ticks_updated, derived_updated, triggers_updated,
                   detections_processed, trades_updated>>
    /\ UNCHANGED pairs_changed
    /\ UNCHANGED <<tickVars, detVars, extVars>>

\* _refresh_pairs_task: sleep(pairs_refresh_secs) is over, data_refreshed.clear().
RefreshPairsSleep ==
    /\ pc.pairs = "sleep"
    /\ data_refreshed' = FALSE
    /\ pc' = [pc EXCEPT !.pairs = "wait_interval"]
    /\ UNCHANGED <<pairs, has_ticks, data_lock, pairs_refreshed,
                   first_refresh_completed, u_step, t_step, loop_done, ticks_updated,
                   derived_updated, triggers_updated, detections_processed,
                   trades_updated>>
    /\ UNCHANGED pairs_changed
    /\ UNCHANGED <<tickVars, detVars, extVars>>

\* _refresh_data_task: _wait_for_pairs_refresh.
RefreshDataWait ==
    /\ pc.data = "wait_pairs"
    /\ pairs_refreshed
    /\ pc' = [pc EXCEPT !.data = "acquire"]
    /\ UNCHANGED <<pairs, has_ticks, data_lock, pairs_refreshed, data_refreshed,
                   first_refresh_completed, u_step, t_step, loop_done, ticks_updated,
                   derived_updated, triggers_updated, detections_processed,
                   trades_updated>>
    /\ UNCHANGED pairs_changed
    /\ UNCHANGED <<tickVars, detVars, extVars>>

\* _refresh_data_task: acquire_data_lock.
RefreshDataAcquire ==
    /\ pc.data = "acquire"
    /\ LockFree(data_lock)
    /\ data_lock' = "data"
    /\ pc' = [pc EXCEPT !.data = "refresh"]
    /\ UNCHANGED <<pairs, has_ticks, pairs_refreshed, data_refreshed,
                   first_refresh_completed, u_step, t_step, loop_done, ticks_updated,
                   derived_updated, triggers_updated, detections_processed,
                   trades_updated>>
    /\ UNCHANGED pairs_changed
    /\ UNCHANGED <<tickVars, detVars, extVars>>

\* _refresh_data_task: _clean_untracked_data, then the tick data refresh of the new
\* pairs with _init_market_data: `loaded` got data, `dropped` came back without
\* close values and leave Market.pairs, the others got nothing from the API.
RefreshData(loaded, dropped) ==
    /\ pc.data = "refresh"
    /\ loaded \subseteq pairs \ has_ticks
    /\ dropped \subseteq (pairs \ has_ticks) \ loaded
    /\ has_ticks' = (has_ticks \cap pairs) \cup loaded
    /\ pairs' = pairs \ dropped
    /\ pc' = [pc EXCEPT !.data = "release"]
    /\ UNCHANGED <<data_lock, pairs_refreshed, data_refreshed, first_refresh_completed,
                   u_step, t_step, loop_done, ticks_updated, derived_updated,
                   triggers_updated, detections_processed, trades_updated>>
    /\ UNCHANGED pairs_changed
    /\ UNCHANGED <<tickVars, detVars, extVars>>

\* _refresh_data_task: data_lock.release(), first_refresh_completed.set(),
\* pairs_refreshed.clear(), data_refreshed.set().
RefreshDataRelease ==
    /\ pc.data = "release"
    /\ data_lock' = "none"
    /\ first_refresh_completed' = TRUE
    /\ pairs_refreshed' = FALSE
    /\ data_refreshed' = TRUE
    /\ pc' = [pc EXCEPT !.data = "wait_pairs"]
    /\ UNCHANGED <<pairs, has_ticks, u_step, t_step, loop_done, ticks_updated,
                   derived_updated, triggers_updated, detections_processed,
                   trades_updated>>
    /\ pairs_changed' = FALSE
    /\ UNCHANGED <<tickVars, detVars, extVars>>

\* _update_data_task: _wait_for_data_refresh, before and after the wait for the interval.
UpdateDataWaitRefresh ==
    /\ pc.update \in {"wait_refresh", "wait_refresh2"}
    /\ data_refreshed
    /\ pc' = [pc EXCEPT !.update = IF pc.update = "wait_refresh"
                                   THEN "wait_interval" ELSE "acquire"]
    /\ UNCHANGED <<pairs, has_ticks, data_lock, pairs_refreshed, data_refreshed,
                   first_refresh_completed, u_step, t_step, loop_done, ticks_updated,
                   derived_updated, triggers_updated, detections_processed,
                   trades_updated>>
    /\ UNCHANGED pairs_changed
    /\ UNCHANGED <<tickVars, detVars, extVars>>

\* _update_data_task: _wait_for_interval.
UpdateDataWaitInterval ==
    /\ pc.update = "wait_interval"
    /\ pc' = [pc EXCEPT !.update = "wait_refresh2"]
    /\ UNCHANGED <<pairs, has_ticks, data_lock, pairs_refreshed, data_refreshed,
                   first_refresh_completed, u_step, t_step, loop_done, ticks_updated,
                   derived_updated, triggers_updated, detections_processed,
                   trades_updated>>
    /\ UNCHANGED pairs_changed
    /\ UNCHANGED <<tickVars, detVars, extVars>>

\* _update_data_task: acquire_data_lock; a cycle starts.
UpdateDataAcquire ==
    /\ pc.update = "acquire"
    /\ LockFree(data_lock)
    /\ data_lock' = "update"
    /\ pc' = [pc EXCEPT !.update = "cycle"]
    /\ u_step' = 1
    /\ t_step' = 1
    /\ loop_done' = {}
    /\ ticks_updated' = {}
    /\ derived_updated' = {}
    /\ triggers_updated' = {}
    /\ detections_processed' = {}
    /\ trades_updated' = {}
    /\ UNCHANGED <<pairs, has_ticks, pairs_refreshed, data_refreshed,
                   first_refresh_completed>>
    /\ UNCHANGED pairs_changed
    /\ UNCHANGED <<tickVars, detVars, extVars>>

\* _update_data_task: the market.update_tick_data(pair) task of one pair ends; with
\* a gap above tick_gap_max it has removed the pair from Market.pairs.
UpdateTickTask(pair, gap) ==
    /\ pc.update = "cycle"
    /\ CycleSteps[u_step] = "update_tick_data"
    /\ pair \in pairs \ ticks_updated
    /\ gap => pair \in has_ticks
    /\ ticks_updated' = ticks_updated \cup {pair}
    /\ pairs' = IF gap THEN pairs \ {pair} ELSE pairs
    /\ UNCHANGED <<has_ticks, data_lock, pairs_refreshed, data_refreshed,
                   first_refresh_completed, pc, u_step, t_step, loop_done,
                   derived_updated, triggers_updated, detections_processed,
                   trades_updated>>
    /\ UNCHANGED pairs_changed
    /\ UNCHANGED <<tickVars, detVars, extVars>>

\* _process_market_data: market.update_derived_data for the next pair with tick data.
UpdateDerivedData ==
    /\ pc.update = "cycle"
    /\ CycleSteps[u_step] = "_process_market_data"
    /\ WithData \ derived_updated # {}
    /\ derived_updated' = derived_updated \cup {FirstOf(WithData \ derived_updated)}
    /\ UNCHANGED <<pairs, has_ticks, data_lock, pairs_refreshed, data_refreshed,
                   first_refresh_completed, pc, u_step, t_step, loop_done,
                   ticks_updated, triggers_updated, detections_processed,
                   trades_updated>>
    /\ UNCHANGED pairs_changed
    /\ UNCHANGED <<tickVars, detVars, extVars>>

\* _process_trading: the next call of the loop over Market.pairs.
ProcessTradingCall ==
    /\ pc.update = "cycle"
    /\ CycleSteps[u_step] = "_process_trading"
    /\ WithData \ loop_done # {}
    /\ LET pair == FirstOf(WithData \ loop_done)
           call == PairSteps[t_step]
       IN  /\ triggers_updated' = IF call = "update_detection_triggers"
                                  THEN triggers_updated \cup {pair} ELSE triggers_updated
           /\ detections_processed' = IF call = "process_detections"
                                      THEN detections_processed \cup {pair}
                                      ELSE detections_processed
           /\ trades_updated' = IF call = "update_open_trades"
                                THEN trades_updated \cup {pair} ELSE trades_updated
           /\ loop_done' = IF t_step = Len(PairSteps)
                           THEN loop_done \cup {pair} ELSE loop_done
    /\ t_step' = IF t_step = Len(PairSteps) THEN 1 ELSE t_step + 1
    /\ UNCHANGED <<pairs, has_ticks, data_lock, pairs_refreshed, data_refreshed,
                   first_refresh_completed, pc, u_step, ticks_updated, derived_updated>>
    /\ UNCHANGED pairs_changed
    /\ UNCHANGED <<tickVars, detVars, extVars>>

\* _update_data_task: a step of the cycle is complete, the next one begins (the
\* release of the lock after the last). _clean_untracked_data is done here.
CycleStepDone ==
    /\ pc.update = "cycle"
    /\ CASE CycleSteps[u_step] = "update_tick_data" -> pairs \subseteq ticks_updated
         [] CycleSteps[u_step] = "_process_market_data" -> WithData \subseteq derived_updated
         [] CycleSteps[u_step] = "_process_trading" -> WithData \subseteq loop_done
         [] OTHER -> TRUE
    /\ has_ticks' = IF CycleSteps[u_step] = "_clean_untracked_data"
                    THEN has_ticks \cap pairs ELSE has_ticks
    /\ IF u_step < Len(CycleSteps)
       THEN u_step' = u_step + 1 /\ pc' = pc
       ELSE u_step' = u_step /\ pc' = [pc EXCEPT !.update = "release"]
    /\ UNCHANGED <<pairs, data_lock, pairs_refreshed, data_refreshed,
                   first_refresh_completed, t_step, loop_done, ticks_updated,
                   derived_updated, triggers_updated, detections_processed,
                   trades_updated>>
    /\ UNCHANGED pairs_changed
    /\ UNCHANGED <<tickVars, detVars, extVars>>

\* _update_data_task: data_lock.release().
UpdateDataRelease ==
    /\ pc.update = "release"
    /\ data_lock' = "none"
    /\ pc' = [pc EXCEPT !.update = "wait_refresh"]
    /\ UNCHANGED <<pairs, has_ticks, pairs_refreshed, data_refreshed,
                   first_refresh_completed, u_step, t_step, loop_done, ticks_updated,
                   derived_updated, triggers_updated, detections_processed,
                   trades_updated>>
    /\ UNCHANGED pairs_changed
    /\ UNCHANGED <<tickVars, detVars, extVars>>

\* _update_rollover_task: acquire_data_lock.
RolloverAcquire ==
    /\ pc.rollover = "acquire"
    /\ LockFree(data_lock)
    /\ data_lock' = "rollover"
    /\ pc' = [pc EXCEPT !.rollover = "sync"]
    /\ UNCHANGED <<pairs, has_ticks, pairs_refreshed, data_refreshed,
                   first_refresh_completed, u_step, t_step, loop_done, ticks_updated,
                   derived_updated, triggers_updated, detections_processed,
                   trades_updated>>
    /\ UNCHANGED pairs_changed
    /\ UNCHANGED <<tickVars, detVars, extVars>>

\* _update_rollover_task: _sync_time_prefix if the rollover time changed, data_lock.release().
RolloverRelease ==
    /\ pc.rollover = "sync"
    /\ data_lock' = "none"
    /\ pc' = [pc EXCEPT !.rollover = "sleep"]
    /\ UNCHANGED <<pairs, has_ticks, pairs_refreshed, data_refreshed,
                   first_refresh_completed, u_step, t_step, loop_done, ticks_updated,
                   derived_updated, triggers_updated, detections_processed,
                   trades_updated>>
    /\ UNCHANGED pairs_changed
    /\ UNCHANGED <<tickVars, detVars, extVars>>

\* _update_rollover_task: sleep(tick_interval_secs) is over.
RolloverSleep ==
    /\ pc.rollover = "sleep"
    /\ pc' = [pc EXCEPT !.rollover = "acquire"]
    /\ UNCHANGED <<pairs, has_ticks, data_lock, pairs_refreshed, data_refreshed,
                   first_refresh_completed, u_step, t_step, loop_done, ticks_updated,
                   derived_updated, triggers_updated, detections_processed,
                   trades_updated>>
    /\ UNCHANGED pairs_changed
    /\ UNCHANGED <<tickVars, detVars, extVars>>

AppNext ==
    \/ RefreshPairsWait
    \/ RefreshPairsAcquire
    \/ \E new_pairs \in SUBSET AllPairs : RefreshPairs(new_pairs)
    \/ RefreshPairsRelease
    \/ RefreshPairsSleep
    \/ RefreshDataWait
    \/ RefreshDataAcquire
    \/ \E loaded \in SUBSET AllPairs, dropped \in SUBSET AllPairs : RefreshData(loaded, dropped)
    \/ RefreshDataRelease
    \/ UpdateDataWaitRefresh
    \/ UpdateDataWaitInterval
    \/ UpdateDataAcquire
    \/ \E pair \in AllPairs, gap \in BOOLEAN : UpdateTickTask(pair, gap)
    \/ UpdateDerivedData
    \/ ProcessTradingCall
    \/ CycleStepDone
    \/ UpdateDataRelease
    \/ RolloverAcquire
    \/ RolloverRelease
    \/ RolloverSleep

(***************************************************************************)
(* Derived data of one pair (src/core/market.py): the moving averages and  *)
(* the Bollinger bands that follow the pair's tick data. The pair is a     *)
(* trade base pair, so adjusted_close_values[pair] is close_values[pair].  *)
(***************************************************************************)

\* config['ma_windows'], config['chart_age'], config['enable_bbands'],
\* config['bband_ma'] and config['bband_mult'] of the modelled run.
\* common.get_min_tick_length() is then ma_windows[-1] + chart_age = MinTickLength.
ma_windows == <<1, 2>>
chart_age == 1
enable_bbands == TRUE
bband_ma == 1
bband_mult == 2

MaxIndTicks == 64    \* tick intervals a run with derived data lasts
MaxTime_Ind == StartTime + MaxIndTicks * tick_interval_secs

MaWindowSet == {ma_windows[i] : i \in 1..Len(ma_windows)}

\* Python's s[start:stop] on 0-based indexes; a negative index counts from the end.
PySlice(s, start, stop) ==
    LET n == Len(s)
        Clamp(i) == IF i < 0 THEN (IF n + i < 0 THEN 0 ELSE n + i)
                    ELSE (IF i > n THEN n ELSE i)
        a == Clamp(start)
        b == Clamp(stop)
    IN  IF a >= b THEN <<>> ELSE SubSeq(s, a + 1, b)

\* s[i] on a 0-based index.
PyAt(s, i) == s[i + 1]

\* common.math.ar_moving_average: the loop from source_index on.
RECURSIVE MovingAverageLoop(_, _, _, _)
MovingAverageLoop(source, window_size, source_index, result) ==
    IF source_index >= Len(source) THEN result
    ELSE LET window_sum == SumSeq(PySlice(source, source_index - window_size, source_index))
         IN  MovingAverageLoop(source, window_size, source_index + 1,
                 [result EXCEPT ![source_index + 1] = window_sum \div window_size])

ar_moving_average_inclusive(source, window_size) ==
    IF source = <<>> THEN <<>>
    ELSE MovingAverageLoop(Tail(source) \o <<0>>, window_size, window_size,
                           [i \in 1..Len(source) |-> 0])

ar_moving_average(source, window_size) ==
    MovingAverageLoop(source, window_size, window_size, [i \in 1..Len(source) |-> 0])

\* numpy.std of a window (population standard deviation), to the integer below.
Isqrt(n) == CHOOSE r \in 0..n : r * r <= n /\ (r + 1) * (r + 1) > n

Std(s) ==
    LET n == Len(s)
        total == SumSeq(s)
        squares == SumSeq([i \in 1..n |-> (n * s[i] - total) * (n * s[i] - total)])
    IN  Isqrt(squares \div (n * n * n))

\* The truncation at the end of each loop body of Market.update_mas.
TruncateMa(ma_seq) ==
    LET truncate == Len(ma_seq) - MinTickLength
    IN  IF truncate > TruncateSlack THEN DropN(ma_seq, truncate) ELSE ma_seq

\* Market.refresh_mas, for one window.
refresh_mas(values, window) ==
    LET source == PySlice(values, 0 - (chart_age + window), Len(values))
    IN  PySlice(ar_moving_average(source, window), window, Len(source))

\* Market.update_mas, for one window: the loop over the last `num` indexes.
RECURSIVE UpdateMaLoop(_, _, _, _, _)
UpdateMaLoop(source, window, index, stop, ma_seq) ==
    IF index >= stop THEN ma_seq
    ELSE UpdateMaLoop(source, window, index + 1, stop,
             Append(ma_seq, SumSeq(PySlice(source, index - window, index)) \div window))

update_mas(values, window, num, ma_seq) ==
    TruncateMa(UpdateMaLoop(values, window, Len(values) - num, Len(values), ma_seq))

\* Market.refresh_bbands and Market.update_bbands: the loop that appends to the
\* bands from `index` on, reading the moving average from `ma_index` on.
RECURSIVE BbandLoop(_, _, _, _, _, _)
BbandLoop(source, source_ma, index, stop, ma_index, bands) ==
    IF index >= stop THEN bands
    ELSE LET bband_window == ma_windows[bband_ma + 1]
             bband_stdev == Std(PySlice(source, index - bband_window, index)) * bband_mult
         IN  BbandLoop(source, source_ma, index + 1, stop, ma_index + 1,
                 [H |-> Append(bands.H, PyAt(source_ma, ma_index) + bband_stdev),
                  L |-> Append(bands.L, PyAt(source_ma, ma_index) - bband_stdev)])

NoBands == [H |-> <<>>, L |-> <<>>]

refresh_bbands(values, mas) ==
    IF ~enable_bbands THEN NoBands
    ELSE LET bband_window == ma_windows[bband_ma + 1]
             source == PySlice(values, 0 - (chart_age + bband_window), Len(values))
         IN  BbandLoop(source, mas[bband_window], bband_window, Len(source), 0, NoBands)

update_bbands(values, mas, num, bands) ==
    IF ~enable_bbands THEN bands
    ELSE LET bband_window == ma_windows[bband_ma + 1]
             source_ma == mas[bband_window]
         IN  BbandLoop(values, source_ma, Len(values) - num, Len(values),
                       Len(source_ma) - num, bands)

IndInit ==
    /\ last_adjusted_close_times = 0
    /\ close_value_mas = [w \in MaWindowSet |-> <<>>]
    /\ bollinger_bands = NoBands

\* The derived data are in step with the tick data.
DerivedInStep == last_adjusted_close_times = Last(close_times)

\* Market.refresh_derived_data, called by Application._init_market_data for a
\* pair that has just got its tick data.
refresh_derived_data ==
    /\ Len(close_values) > 0
    /\ last_adjusted_close_times = 0
    /\ last_adjusted_close_times' = Last(close_times)
    /\ close_value_mas' = [w \in MaWindowSet |-> refresh_mas(close_values, w)]
    /\ bollinger_bands' = refresh_bbands(close_values, close_value_mas')
    /\ UNCHANGED notIndVars

\* Market.update_derived_data, called by Application._process_market_data in
\* each update cycle after the cycle's update_tick_data.
update_derived_data ==
    /\ Len(close_times) > 0
    /\ last_adjusted_close_times # 0
    /\ ~DerivedInStep
    /\ last_adjusted_close_times' = Last(close_times)
    /\ close_value_mas' = [w \in MaWindowSet |->
                              update_mas(close_values, w, last_update_nums, close_value_mas[w])]
    /\ bollinger_bands' = update_bbands(close_values, close_value_mas', last_update_nums,
                                        bollinger_bands)
    /\ UNCHANGED notIndVars

\* The steps of the tick store in a run with derived data: the pair is listed
\* and loaded once, the exchange answers every request, an update cycle runs
\* on every tick the clock stops at, and ticks are missed only in the first
\* MaxTicks intervals of the run.
IndAdvance(dt) ==
    /\ last_adjusted_close_times # 0
    /\ DerivedInStep
    /\ _get_tick_delta(close_times, now) = NoDelta
    /\ now + dt <= MaxTime_Ind
    /\ dt > tick_interval_secs => now < MaxTime
    /\ now' = now + dt
    /\ UNCHANGED <<close_times, close_values, close_times_backup,
                   close_values_backup, in_pairs, greylist_pairs,
                   back_refreshes, last_update_nums>>
    /\ UNCHANGED <<detVars, appVars, extVars>>

IndRefreshPairs ==
    /\ ~in_pairs
    /\ refresh_pairs(TRUE)

IndRefreshTickData == refresh_tick_data(TRUE, 0, {})

IndUpdateTickData ==
    /\ last_adjusted_close_times # 0
    /\ DerivedInStep
    /\ _get_tick_delta(close_times, now) # NoDelta
    /\ update_tick_data(HistoricPrice(now), FALSE)

IndNext ==
    \/ \E dt \in {tick_interval_secs, TickGapMax * tick_interval_secs} : IndAdvance(dt)
    \/ IndRefreshPairs
    \/ IndRefreshTickData
    \/ refresh_derived_data
    \/ IndUpdateTickData
    \/ update_derived_data

(***************************************************************************)
(* Calls of common.math.ar_moving_average (src/common/math.py) on the      *)
(* series and windows of a bounded set.                                    *)
(***************************************************************************)

MaxSeriesLen == 4    \* longest series passed to the function
MaxWindow == 3       \* largest window passed to the function

RECURSIVE SeqsUpTo(_, _)
SeqsUpTo(S, n) ==
    IF n = 0 THEN {<<>>}
    ELSE LET shorter == SeqsUpTo(S, n - 1)
         IN  shorter \cup {Append(s, x) : s \in shorter, x \in S}

\* No call has been made.
MathIdle ==
    /\ ma_source = <<>>
    /\ ma_window_size = 1
    /\ ma_result = <<>>
    /\ ma_returned = FALSE

\* A call with any series and window of the bounded set is about to be made.
MathInputs ==
    /\ ma_source \in SeqsUpTo(Prices, MaxSeriesLen)
    /\ ma_window_size \in 1..MaxWindow
    /\ ma_result = <<>>
    /\ ma_returned = FALSE

\* The call returns.
CallMovingAverage ==
    /\ ~ma_returned
    /\ ma_result' = ar_moving_average(ma_source, ma_window_size)
    /\ ma_returned' = TRUE
    /\ UNCHANGED <<ma_source, ma_window_size>>
    /\ UNCHANGED notMathVars

MathNext == CallMovingAverage

(***************************************************************************)
(* The change filter of the pair selection (src/core/market.py),           *)
(* Market.apply_pair_change_filter, for one pair. Changes and deltas are   *)
(* decimal fractions counted in units of 0.0001.                           *)
(***************************************************************************)

\* config['pair_change_filter'] and config['pair_dip_filter'] of the modelled run.
pair_change_filter == TRUE
pair_dip_filter == TRUE

\* config['pair_change_min'] = 0.01 and config['pair_change_dip'] = 0.02 of the
\* modelled run; config['pair_change_cutoff'] = 0.0125 as in the defaults.
pair_change_min == 100
pair_change_dip == 200
pair_change_cutoff == 125

ChangeStep == 5      \* granularity of the changes the exchange reports
MaxChange == 60      \* largest change between two refreshes, in steps

Changes == {c * ChangeStep : c \in (0 - MaxChange)..MaxChange}

NoLastPair == [present |-> FALSE, change |-> 0, delta |-> 0, filtered |-> FALSE]

\* The test that drops an included pair.
DropsPair(change_delta) == change_delta <= 0 - pair_change_cutoff

\* Market.apply_pair_change_filter with the dip filter: the new entry of
\* last_pairs[pair]; its `filtered` is what the method returns.
apply_pair_change_filter(last, change) ==
    LET change_min == pair_change_min
        change_max == pair_change_min
        change_dip == pair_change_dip
    IN  IF last.present
        THEN LET change_delta == last.delta + change
             IN  IF last.filtered
                 THEN IF change_delta < 0 - change_dip
                      THEN [present |-> TRUE, change |-> change,
                            delta |-> 0 - change_dip, filtered |-> TRUE]
                      ELSE IF change_delta >= change_min
                      THEN [present |-> TRUE, change |-> change,
                            delta |-> IF change_delta > change_max THEN change_max
                                      ELSE change_delta,
                            filtered |-> FALSE]
                      ELSE [present |-> TRUE, change |-> change,
                            delta |-> change_delta, filtered |-> TRUE]
                 ELSE IF DropsPair(change_delta)
                      THEN [present |-> TRUE, change |-> change,
                            delta |-> IF change_delta < 0 - change_dip THEN 0 - change_dip
                                      ELSE change_delta,
                            filtered |-> TRUE]
                      ELSE [present |-> TRUE, change |-> change,
                            delta |-> IF change_delta > change_max THEN change_max
                                      ELSE change_delta,
                            filtered |-> FALSE]
        ELSE IF change >= change_min
             THEN [present |-> TRUE, change |-> change,
                   delta |-> IF change > change_max THEN change_max ELSE change,
                   filtered |-> FALSE]
             ELSE [present |-> TRUE, change |-> change,
                   delta |-> IF change < 0 - change_dip THEN 0 - change_dip ELSE change,
                   filtered |-> TRUE]

ChgInit == last_pairs = NoLastPair

\* Market.refresh_pairs reads the pair's market summary, whose value has
\* changed by `change` since the previous refresh, and applies the filter.
ApplyChangeFilter(change) ==
    /\ pair_change_filter
    /\ pair_dip_filter
    /\ last_pairs' = apply_pair_change_filter(last_pairs, change)
    /\ UNCHANGED notChgVars

ChgNext == \E change \in Changes : ApplyChangeFilter(change)

(***************************************************************************)
(* Back-refreshes of the tick store (src/core/market.py): the ticks that   *)
(* _restore_ticks interpolated are overwritten later with the exchange's   *)
(* ticks. The pair is also config['base_pairs'][0], whose latest close     *)
(* time check_back_refreshes compares the due times with.                  *)
(***************************************************************************)

back_refresh_max_per_tick == 3

MaxBackTicks == 10   \* tick intervals a run with back-refreshes lasts
MaxTime_Back == StartTime + MaxBackTicks * tick_interval_secs

\* api.get_ticks(pair, length): the exchange's ticks up to `end`, `length`
\* intervals back.
get_ticks(end, length) ==
    [i \in 1..(length + 1) |->
        [T |-> end - (length + 1 - i) * tick_interval_secs,
         C |-> HistoricPrice(end - (length + 1 - i) * tick_interval_secs)]]

\* Market._overwrite_tick_data: the loop; the result is [values, overwritten].
\* An index outside either array ends the loop (IndexError).
RECURSIVE OverwriteLoop(_, _, _, _, _, _)
OverwriteLoop(values, source_values, dest_index, source_index, left, overwritten) ==
    IF left = 0 \/ source_index > Len(source_values) \/ dest_index > Len(values)
    THEN [values |-> values, overwritten |-> overwritten]
    ELSE OverwriteLoop([values EXCEPT ![dest_index] = source_values[source_index]],
                       source_values, dest_index + 1, source_index + 1, left - 1,
                       overwritten + 1)

_overwrite_tick_data(times, values, start_time, end_time, ticks) ==
    IF Len(ticks) = 0 THEN [values |-> values, overwritten |-> 0]
    ELSE LET expanded == _expand_ticks(ticks)
             source_index == IndexOf(expanded.times, start_time)
             dest_index == IndexOf(times, start_time)
             length == (end_time - start_time) \div tick_interval_secs
         IN  IF source_index = 0 \/ dest_index = 0
             THEN [values |-> values, overwritten |-> 0]
             ELSE OverwriteLoop(values, expanded.values, dest_index, source_index,
                                length, 0)

\* Market.check_back_refreshes: the loop over back_refreshes from `index` on;
\* the result is [values, kept, refreshes, log], `kept` the entries that stay.
RECURSIVE BackRefreshLoop(_, _, _, _, _, _, _, _)
BackRefreshLoop(refreshes_list, index, times, values, api_end, kept, refreshes, log) ==
    IF index > Len(refreshes_list)
    THEN [values |-> values, kept |-> kept, log |-> log]
    ELSE IF refreshes >= back_refresh_max_per_tick
    THEN [values |-> values,
          kept |-> kept \o SubSeq(refreshes_list, index, Len(refreshes_list)),
          log |-> log]
    ELSE LET refresh == refreshes_list[index]
             last_time == Last(times)
         IN  IF last_time > refresh.time
             THEN LET refresh_num == (last_time - refresh.start) \div tick_interval_secs
                      ticks == get_ticks(api_end, refresh_num)
                      result == _overwrite_tick_data(times, values, refresh.start,
                                                     refresh.end, ticks)
                  IN  BackRefreshLoop(refreshes_list, index + 1, times, result.values,
                          api_end, kept, refreshes + 1,
                          Append(log, [start |-> refresh.start, end |-> refresh.end,
                                       fetched |-> _expand_ticks(ticks),
                                       overwritten |-> result.overwritten]))
             ELSE BackRefreshLoop(refreshes_list, index + 1, times, values, api_end,
                                  Append(kept, refresh), refreshes, log)

\* A back-refresh is due.
BackRefreshDue ==
    /\ Len(close_times) > 0
    /\ \E i \in 1..Len(back_refreshes) : Last(close_times) > back_refreshes[i].time

BackInit == back_log = <<>>

\* Market.check_back_refreshes, at the end of an update cycle. `lag` is how many
\* intervals the exchange's history is behind.
check_back_refreshes(lag) ==
    /\ BackRefreshDue
    /\ LET api_end == (now - (now % tick_interval_secs)) - lag * tick_interval_secs
           result == BackRefreshLoop(back_refreshes, 1, close_times, close_values,
                                     api_end, <<>>, 0, <<>>)
       IN  /\ close_values' = result.values
           /\ back_refreshes' = result.kept
           /\ back_log' = result.log
    /\ UNCHANGED <<now, close_times, close_times_backup, close_values_backup, in_pairs,
                   greylist_pairs, last_update_nums>>
    /\ UNCHANGED notBackVars

\* The steps of the tick store in a run with back-refreshes: the pair is listed
\* and loaded once, an update cycle runs on every tick the clock stops at and
\* ends with the back-refreshes that are due, and ticks are missed only in the
\* first MaxTicks intervals of the run.
BackAdvance(dt) ==
    /\ Len(close_times) > 0
    /\ _get_tick_delta(close_times, now) = NoDelta
    /\ ~BackRefreshDue
    /\ now + dt <= MaxTime_Back
    /\ dt > tick_interval_secs => now < MaxTime
    /\ now' = now + dt
    /\ UNCHANGED <<close_times, close_values, close_times_backup,
                   close_values_backup, in_pairs, greylist_pairs,
                   back_refreshes, last_update_nums>>
    /\ UNCHANGED <<detVars, appVars, extVars>>

BackRefreshPairs ==
    /\ ~in_pairs
    /\ refresh_pairs(TRUE)

BackRefreshTickData == refresh_tick_data(TRUE, 0, {})

BackUpdateTickData(close_value) ==
    /\ _get_tick_delta(close_times, now) # NoDelta
    /\ update_tick_data(close_value, FALSE)

BackNext ==
    \/ \E dt \in {tick_interval_secs, TickGapMax * tick_interval_secs} : BackAdvance(dt)
    \/ BackRefreshPairs
    \/ BackRefreshTickData
    \/ \E close_value \in Prices : BackUpdateTickData(close_value)
    \/ \E lag \in 0..1 : check_back_refreshes(lag)

(***************************************************************************)
(* The update_tick_data tasks of the update cycles (src/core/market.py,    *)
(* src/cryptowatcher.py), one task per pair of Market.pairs and cycle.     *)
(* Every base pair is in Market.pairs, so extra_base_pairs is empty.       *)
(***************************************************************************)

\* The test of update_tick_data that greylists a pair.
ExceedsGap_never(tick_gap) == FALSE

ExceedsGap(tick_gap) == tick_gap > TickGapMax

\* Market.update_tick_data for one pair: `ticks` is the pair's record of
\* pair_ticks, `close_value` what api.get_last_values returns (0 for None).
\* The result is [ticks, in_pairs, greylist_time, returned].
UpdateTick(ticks, in_pairs_list, greylist_time, current_time, close_value) ==
    LET delta == _get_tick_delta(ticks.times, current_time)
        close_time == delta[1]
        tick_gap == delta[2]
        zeroed == [ticks EXCEPT !.nums = 0]
    IN  IF delta = NoDelta
        THEN [ticks |-> zeroed, in_pairs |-> in_pairs_list,
              greylist_time |-> greylist_time, returned |-> "None"]
        ELSE IF ExceedsGap(tick_gap)
        THEN [ticks |-> zeroed, in_pairs |-> FALSE,
              greylist_time |-> IF greylist_time = 0
                                THEN current_time + pairs_greylist_secs
                                ELSE greylist_time,
              returned |-> "None"]
        ELSE IF close_value = 0
        THEN [ticks |-> zeroed, in_pairs |-> in_pairs_list,
              greylist_time |-> greylist_time, returned |-> "None"]
        ELSE LET restored == _restore_ticks(ticks.times, ticks.values, ticks.times_backup,
                                            ticks.values_backup, tick_gap, close_value)
                 times == _truncate_tick_data(Append(restored.times, close_time))
                 values == _truncate_tick_data(Append(restored.values, close_value))
             IN  [ticks |-> [times |-> times, values |-> values,
                             times_backup |-> _backup_tick_data(times),
                             values_backup |-> _backup_tick_data(values),
                             refreshes |-> IF restored.interpolated # 0
                                           THEN _schedule_back_refresh(ticks.refreshes,
                                                    restored.times, tick_gap, current_time, 0)
                                           ELSE ticks.refreshes,
                             nums |-> tick_gap + 1],
                  in_pairs |-> in_pairs_list, greylist_time |-> greylist_time,
                  returned |-> "pair"]

\* The ticks a pair has after Market.refresh_tick_data at the start of the run.
LoadedTicks ==
    LET expanded == _expand_ticks(RawTicks(StartTime - (StartTime % tick_interval_secs), {}))
    IN  [times |-> expanded.times, values |-> expanded.values,
         times_backup |-> <<>>, values_backup |-> <<>>, refreshes |-> <<>>, nums |-> 0]

UpdInit ==
    /\ market_pairs = AllPairs
    /\ greylist = [p \in AllPairs |-> 0]
    /\ pair_ticks = [p \in AllPairs |-> LoadedTicks]
    /\ task_result = [p \in AllPairs |-> "idle"]
    /\ finished = <<>>

\* _update_data_task: the next cycle starts one tick interval later with one
\* update_tick_data task for every pair of Market.pairs.
StartUpdateTasks ==
    /\ \A p \in AllPairs : task_result[p] # "pending"
    /\ market_pairs # {}
    /\ now + tick_interval_secs <= MaxTime
    /\ now' = now + tick_interval_secs
    /\ task_result' = [p \in AllPairs |-> IF p \in market_pairs THEN "pending" ELSE "idle"]
    /\ finished' = <<>>
    /\ UNCHANGED <<market_pairs, greylist, pair_ticks>>
    /\ UNCHANGED <<close_times, close_values, close_times_backup,
                   close_values_backup, in_pairs, greylist_pairs,
                   back_refreshes, last_update_nums>>
    /\ UNCHANGED notUpdVars

\* The task of one pair runs Market.update_tick_data(pair) and ends.
UpdateTickDataTask(pair, close_value) ==
    /\ task_result[pair] = "pending"
    /\ LET result == UpdateTick(pair_ticks[pair], pair \in market_pairs, greylist[pair],
                                now, close_value)
       IN  /\ pair_ticks' = [pair_ticks EXCEPT ![pair] = result.ticks]
           /\ market_pairs' = IF result.in_pairs THEN market_pairs
                              ELSE market_pairs \ {pair}
           /\ greylist' = [greylist EXCEPT ![pair] = result.greylist_time]
           /\ task_result' = [task_result EXCEPT ![pair] = result.returned]
    /\ finished' = Append(finished, pair)
    /\ UNCHANGED tickVars
    /\ UNCHANGED notUpdVars

UpdNext ==
    \/ StartUpdateTasks
    \/ \E pair \in AllPairs, answered \in BOOLEAN : UpdateTickDataTask(pair, IF answered THEN HistoricPrice(now) ELSE 0)

(***************************************************************************)
(* Detector._get_detection_trigger on conditions with malformed rules.    *)
(***************************************************************************)

MaxRules == 2   \* rules of a condition

\* Rules the check methods accept, and rules with an unknown name, a window
\* index outside config['ma_windows'], a missing element, and no element.
WellFormedRules == {<<"ma_position", 0, 1>>, <<"ma_position", 1, 0>>}
MalformedRules == {<<"ma_postion", 0, 1>>, <<"ma_position", 3, 0>>, <<"ma_position", 0>>, <<>>}
CheckedRules == WellFormedRules \cup MalformedRules

\* The conditions evaluated: one to MaxRules rules.
CheckedConditions == SeqsUpTo(CheckedRules, MaxRules) \ {<<>>}

NoTrigger == [time |-> 0, set |-> None, ma_positions |-> <<>>]

RuleInit ==
    /\ chk_rules = <<>>
    /\ chk_trigger = NoTrigger

\* One call of _get_detection_trigger(pair, detection_name, condition_index) for
\* a condition whose rules are `rules`, on an empty rule cache.
GetDetectionTrigger(rules) ==
    /\ dpc = "idle"
    /\ chk_rules' = rules
    /\ chk_trigger' = RuleLoop(rules, "cross", 1, 1, <<>>, <<>>,
                               [r \in CheckedRules |-> NoEntry]).trigger
    /\ UNCHANGED notRuleVars

\* The calls are made on the first tick and on the one that follows it.
RuleTick(new_ma) == tick_time = DetStartTime /\ NewTick(1, new_ma, ma)

RuleNext ==
    \/ \E new_ma \in MaVectors \cup {NoMa} : RuleTick(new_ma)
    \/ \E rules \in CheckedConditions : GetDetectionTrigger(rules)

(***************************************************************************)
(* Restarts of the application and Detector.restore_detection_triggers,   *)
(* for one pair that is in Market.pairs and has tick data.                 *)
(***************************************************************************)

\* config['detection_restore_timeout_secs'] and config['output_rollover_secs'].
detection_restore_timeout_secs == 3600
output_rollover_secs == 86400

RestoreStep == 1800   \* seconds between the tick times looked at
MaxRstSteps == 8      \* tick times after the first

RstStartTime == output_rollover_secs - 4 * RestoreStep
MaxTime_Rst == RstStartTime + MaxRstSteps * RestoreStep
RstTimes == {RstStartTime + k * RestoreStep : k \in 0..MaxRstSteps}

\* common.get_rollover_time_str: the rollover period a time lies in.
get_rollover_time_str(timestamp) == timestamp \div output_rollover_secs

TimePrefixes == {get_rollover_time_str(t) : t \in RstTimes}

NoRestore == [done |-> FALSE, current_time |-> 0, last_update_time |-> 0,
              stored_time |-> 0, dropped |-> FALSE]

\* restore_detection_triggers: current_time - last_update_time > timeout.
IsStale(current_time, last_update_time) ==
    current_time - last_update_time > detection_restore_timeout_secs

RstInit ==
    /\ clock = RstStartTime
    /\ running = TRUE
    /\ stored_triggers = FALSE
    /\ stored_stats = [p \in TimePrefixes |-> 0]
    /\ stored_time = 0
    /\ loaded_triggers = FALSE
    /\ restore_log = NoRestore

\* A cycle of the update task on the tick of time t: Detector.update_detection_triggers
\* writes the triggers of the pair and, under the time prefix of the day,
\* last_update_time, and saves both.
RstUpdateTriggers(t) ==
    /\ running
    /\ t \in RstTimes /\ t >= clock
    /\ clock' = t
    /\ loaded_triggers' = TRUE
    /\ stored_triggers' = TRUE
    /\ stored_stats' = [stored_stats EXCEPT ![get_rollover_time_str(t)] = t]
    /\ stored_time' = t
    /\ UNCHANGED <<running, restore_log>>
    /\ UNCHANGED notRstVars

\* The process ends; the state files stay.
RstStop ==
    /\ running
    /\ running' = FALSE
    /\ loaded_triggers' = FALSE
    /\ UNCHANGED <<clock, stored_triggers, stored_stats, stored_time, restore_log>>
    /\ UNCHANGED notRstVars

\* The process starts again and the latest tick of the pair is of time t:
\* Application._live restores detection_stats of the current time prefix,
\* sync_pairs prepares last_update_time = 0.0 where none was restored, and after
\* the first refresh _ensure_startup_init calls restore_detection_triggers.
RstStart(t) ==
    /\ ~running
    /\ t \in RstTimes /\ t >= clock
    /\ clock' = t
    /\ running' = TRUE
    /\ LET last_update_time == stored_stats[get_rollover_time_str(t)]
           dropped == stored_triggers /\ IsStale(t, last_update_time)
       IN  /\ loaded_triggers' = (stored_triggers /\ ~dropped)
           /\ restore_log' = IF stored_triggers
                             THEN [done |-> TRUE, current_time |-> t,
                                   last_update_time |-> last_update_time,
                                   stored_time |-> stored_time, dropped |-> dropped]
                             ELSE NoRestore
    /\ UNCHANGED <<stored_triggers, stored_stats, stored_time>>
    /\ UNCHANGED notRstVars

RstNext ==
    \/ \E t \in RstTimes : RstUpdateTriggers(t)
    \/ RstStop
    \/ \E t \in RstTimes : RstStart(t)

(***************************************************************************)
(* Detector._detection_filter_follow, for one pair.                        *)
(***************************************************************************)

\* config['detection_min_follow_secs'] and config['detection_max_follow_secs'].
detection_min_follow_secs == 180
detection_max_follow_secs == 28800

MaxFollowRules == 2   \* entries of a 'follow' list
FollowTime == 600     \* market.close_times[pair][-1]
FollowValue == 100    \* market.adjusted_close_values[pair][-1]

FollowGroups == {"dip", "peak"}

\* Entries of 'follow' lists; deltas are in hundredths.
FollowItems ==
    {[groups |-> <<"dip">>, types |-> {"init0"}, min_secs |-> 0, max_secs |-> None],
     [groups |-> <<"peak">>, types |-> {"init1"}, max_delta |-> 5],
     [groups |-> <<"dip", "peak">>, types |-> {"None", "init1"}, min_delta |-> 0]}

FollowLists == SeqsUpTo(FollowItems, MaxFollowRules)

\* last_detections[pair][group]: no record, or the record of a detection of
\* 60 or 300 seconds ago at a value of 90 or 100.
NoLastDetection == [present |-> FALSE, type |-> "None", time |-> 0, value |-> 0, ma_value |-> 0]

LastDetectionRecords ==
    {NoLastDetection} \cup
    [present : {TRUE}, type : {"init0", "init1"},
     time : {FollowTime - 60, FollowTime - 300},
     value : {FollowValue - 10, FollowValue}, ma_value : {FollowValue}]

\* _detection_filter_follow: the rule dict built from an entry of the list.
FollowRule(item) ==
    item @@ [groups |-> <<>>, types |-> {}, min_delta |-> None, max_delta |-> None,
             min_ma_delta |-> None, max_ma_delta |-> None,
             min_secs |-> detection_min_follow_secs,
             max_secs |-> detection_max_follow_secs]

\* 1.0 - last_value / current_value < bound, the bound in hundredths.
DeltaBelow(last_value, current_value, bound) ==
    (current_value - last_value) * 100 < bound * current_value

\* Detector._filter_follow_rule_group: TRUE when the rule filters the detection
\* for this group.
_filter_follow_rule_group(rule, group, last, current_time, current_value) ==
    IF "None" \in rule.types /\ ~last[group].present THEN FALSE
    ELSE IF ~last[group].present THEN TRUE
    ELSE IF last[group].type \in rule.types
    THEN LET last_time == last[group].time
             value == last[group].value
             ma_value == last[group].ma_value
         IN  IF rule.min_secs # None /\ current_time < last_time + rule.min_secs THEN TRUE
             ELSE IF rule.max_secs # None /\ current_time > last_time + rule.max_secs THEN TRUE
             ELSE IF rule.min_delta # None /\ DeltaBelow(value, current_value, rule.min_delta)
             THEN TRUE
             ELSE IF rule.max_delta # None /\ ~DeltaBelow(value, current_value, rule.max_delta)
             THEN TRUE
             ELSE IF rule.min_ma_delta # None
                     /\ DeltaBelow(ma_value, current_value, rule.min_ma_delta)
             THEN TRUE
             ELSE IF rule.max_ma_delta # None
                     /\ ~DeltaBelow(ma_value, current_value, rule.max_ma_delta)
             THEN TRUE
             ELSE FALSE
    ELSE TRUE

\* _detection_filter_follow: the loops over the rules and the groups of each,
\* from rule i and group j on.
RECURSIVE FollowLoop(_, _, _, _, _, _)
FollowLoop(rules, i, j, last, current_time, current_value) ==
    IF i > Len(rules) THEN TRUE
    ELSE IF j > Len(rules[i].groups)
    THEN FollowLoop(rules, i + 1, 1, last, current_time, current_value)
    ELSE IF ~_filter_follow_rule_group(rules[i], rules[i].groups[j], last,
                                       current_time, current_value)
    THEN FALSE
    ELSE FollowLoop(rules, i, j + 1, last, current_time, current_value)

\* A follow filter that wants every rule of the list to match.
RECURSIVE EveryLoop(_, _, _, _, _, _)
EveryLoop(rules, i, j, last, current_time, current_value) ==
    IF i > Len(rules) THEN FALSE
    ELSE IF j > Len(rules[i].groups) THEN TRUE
    ELSE IF ~_filter_follow_rule_group(rules[i], rules[i].groups[j], last,
                                       current_time, current_value)
    THEN EveryLoop(rules, i + 1, 1, last, current_time, current_value)
    ELSE EveryLoop(rules, i, j + 1, last, current_time, current_value)

_detection_filter_follow_every(follow, last, current_time, current_value) ==
    /\ follow # <<>>
    /\ EveryLoop([i \in 1..Len(follow) |-> FollowRule(follow[i])], 1, 1,
                 last, current_time, current_value)

\* Detector._detection_filter_follow: TRUE when the detection is filtered.
_detection_filter_follow(follow, last, current_time, current_value) ==
    FollowLoop([i \in 1..Len(follow) |-> FollowRule(follow[i])], 1, 1,
               last, current_time, current_value)

FollowIdle ==
    /\ fl_last = [g \in FollowGroups |-> NoLastDetection]
    /\ fl_follow = <<>>
    /\ fl_returned = FALSE
    /\ fl_veto = FALSE

FollowInputs ==
    /\ fl_last \in [FollowGroups -> LastDetectionRecords]
    /\ fl_follow \in FollowLists
    /\ fl_returned = FALSE
    /\ fl_veto = FALSE

CallFollowFilter ==
    /\ ~fl_returned
    /\ fl_returned' = TRUE
    /\ fl_veto' = _detection_filter_follow(fl_follow, fl_last, FollowTime, FollowValue)
    /\ UNCHANGED <<fl_last, fl_follow>>
    /\ UNCHANGED notFollowVars

\* A follow_all filter that is content with one matching rule.
_detection_filter_follow_all_any(follow_all, last, current_time, current_value) ==
    FollowLoop([i \in 1..Len(follow_all) |-> FollowRule(follow_all[i])], 1, 1,
               last, current_time, current_value)

\* _detection_filter_follow_all: num_passed after the loop over the rules from
\* rule i on; a rule counts once, at the first of its groups that matches.
RECURSIVE NumPassed(_, _, _, _, _)
NumPassed(rules, i, last, current_time, current_value) ==
    IF i > Len(rules) THEN 0
    ELSE (IF \E j \in 1..Len(rules[i].groups) :
                ~_filter_follow_rule_group(rules[i], rules[i].groups[j], last,
                                           current_time, current_value)
          THEN 1 ELSE 0)
         + NumPassed(rules, i + 1, last, current_time, current_value)

\* Detector._detection_filter_follow_all: TRUE when the detection is filtered.
_detection_filter_follow_all(follow_all, last, current_time, current_value) ==
    NumPassed([i \in 1..Len(follow_all) |-> FollowRule(follow_all[i])], 1,
              last, current_time, current_value) # Len(follow_all)

FollowAllIdle ==
    /\ fa_returned = FALSE
    /\ fa_veto = FALSE

\* The same list as the 'follow_all' parameter of the detection.
CallFollowAllFilter ==
    /\ ~fa_returned
    /\ fa_returned' = TRUE
    /\ fa_veto' = _detection_filter_follow_all(fl_follow, fl_last, FollowTime, FollowValue)
    /\ UNCHANGED notFollowAllVars

FollowNext == CallFollowFilter \/ CallFollowAllFilter

(***************************************************************************)
(* The overlap filter in a pass of process_detections, and the buy        *)
(* actions the pass dispatches, for one pair.                              *)
(***************************************************************************)

MaxOvlTicks == 4      \* ticks after the first
MaxOpenTrades == 2    \* open trades of the pair
OverlapMins == 2      \* the 'overlap' parameter of "late_buy", minutes

OvlStartTime == tick_interval_secs
MaxTime_Ovl == OvlStartTime + MaxOvlTicks * tick_interval_secs

\* config['detections'] of this run, in its order: two detections with the
\* action 'buy', the second with an 'overlap'.
OvlNames == <<"first_buy", "late_buy">>

OvlParams ==
    [first_buy |-> [action |-> "buy", overlap |-> None],
     late_buy |-> [action |-> "buy", overlap |-> OverlapMins]]

\* An overlap filter that looks at the time of the last open alone.
_detection_filter_overlap_time_only(params, current_time, last_open, has_open_trades) ==
    /\ params.action \in {"buy", "rebuy"}
    /\ params.overlap # None /\ params.overlap # 0
    /\ current_time - last_open < params.overlap * 60

\* Detector._detection_filter_overlap: TRUE when the detection is filtered.
\* (current_time - last_open_time) / 60 < min_time, without the division.
_detection_filter_overlap(params, current_time, last_open, has_open_trades) ==
    /\ params.action \in {"buy", "rebuy"}
    /\ params.overlap # None /\ params.overlap # 0
    /\ has_open_trades
    /\ current_time - last_open < params.overlap * 60

OvlInit ==
    /\ o_time = OvlStartTime
    /\ open_trades = 0
    /\ last_open_time = 0
    /\ o_pc = "idle"
    /\ o_index = 1
    /\ o_futures = <<>>
    /\ o_vetoed = {}

\* The update task brings the next tick of the pair.
OvlNewTick ==
    /\ o_pc = "idle"
    /\ o_time + tick_interval_secs <= MaxTime_Ovl
    /\ o_time' = o_time + tick_interval_secs
    /\ UNCHANGED <<open_trades, last_open_time, o_pc, o_index, o_futures, o_vetoed>>
    /\ UNCHANGED notOvlVars

\* Detector.process_detections is called for the pair.
OvlStartPass ==
    /\ o_pc = "idle"
    /\ o_pc' = "process"
    /\ o_index' = 1
    /\ o_futures' = <<>>
    /\ o_vetoed' = {}
    /\ UNCHANGED <<o_time, open_trades, last_open_time>>
    /\ UNCHANGED notOvlVars

\* process_detections: one iteration of its loop. `passes` says whether the
\* detection is fully set and passes the filters before 'overlap'; the filters
\* after it are not configured.
OvlProcess(passes) ==
    /\ o_pc = "process"
    /\ LET detection_name == OvlNames[o_index]
           params == OvlParams[detection_name]
           veto == /\ passes
                   /\ params.overlap # None
                   /\ _detection_filter_overlap(params, o_time, last_open_time,
                                                open_trades > 0)
       IN  /\ o_vetoed' = IF veto THEN o_vetoed \cup {detection_name} ELSE o_vetoed
           /\ o_futures' = IF passes /\ ~veto
                           THEN Append(o_futures, [name |-> detection_name, st |-> "created"])
                           ELSE o_futures
    /\ IF o_index < Len(OvlNames)
       THEN o_index' = o_index + 1 /\ o_pc' = o_pc
       ELSE o_index' = o_index /\ o_pc' = "await"
    /\ UNCHANGED <<o_time, open_trades, last_open_time>>
    /\ UNCHANGED notOvlVars

\* A dispatch task runs, which it can once the loop of the pass is over and
\* process_detections awaits: Detector._dispatch_detection_action takes the
\* action lock, calls Trader.buy and releases the lock. `opened` says whether
\* the buy method returned a trade; _register_trade_buy then sets
\* last_open_time.
OvlBuy(i, opened) ==
    /\ o_pc = "await"
    /\ i \in 1..Len(o_futures)
    /\ o_futures[i].st = "created"
    /\ opened => open_trades < MaxOpenTrades
    /\ o_futures' = [o_futures EXCEPT ![i].st = "done"]
    /\ open_trades' = IF opened THEN open_trades + 1 ELSE open_trades
    /\ last_open_time' = IF opened THEN o_time ELSE last_open_time
    /\ UNCHANGED <<o_time, o_pc, o_index, o_vetoed>>
    /\ UNCHANGED notOvlVars

\* process_detections: `for result in asyncio.as_completed(futures): await result`.
OvlAwait ==
    /\ o_pc = "await"
    /\ \A i \in 1..Len(o_futures) : o_futures[i].st = "done"
    /\ o_pc' = "idle"
    /\ o_futures' = <<>>
    /\ UNCHANGED <<o_time, open_trades, last_open_time, o_index, o_vetoed>>
    /\ UNCHANGED notOvlVars

\* Trader.update_open_trades, after process_detections in the cycle, removes
\* the trades it sold from the open trades of the pair.
OvlCloseTrades ==
    /\ o_pc = "idle"
    /\ \E sold \in 1..open_trades : open_trades' = open_trades - sold
    /\ UNCHANGED <<o_time, last_open_time, o_pc, o_index, o_futures, o_vetoed>>
    /\ UNCHANGED notOvlVars

OvlNext ==
    \/ OvlNewTick
    \/ OvlStartPass
    \/ \E passes \in BOOLEAN : OvlProcess(passes)
    \/ \E i \in 1..Len(OvlNames), opened \in BOOLEAN : OvlBuy(i, opened)
    \/ OvlAwait
    \/ OvlCloseTrades

(***************************************************************************)
(* The max_consecutive filter and the last detections of one pair.         *)
(***************************************************************************)

MaxConsTicks == 5     \* ticks after the first
MaxConsecutive == 2   \* the 'max_consecutive' parameter of "capped"

ConsStartTime == tick_interval_secs
MaxTime_Cons == ConsStartTime + MaxConsTicks * tick_interval_secs

\* config['detections'] of this run, in its order: "capped" and "other" share
\* the group "swing", which is the first group of "capped"; "side" is in
\* "trend" only.
ConsNames == <<"capped", "other", "side">>
ConsNameSet == {ConsNames[i] : i \in 1..Len(ConsNames)}
ConsGroups == {"swing", "trend"}

ConsParams ==
    [capped |-> [groups |-> <<"swing", "trend">>, max_consecutive |-> MaxConsecutive],
     other |-> [groups |-> <<"swing">>, max_consecutive |-> None],
     side |-> [groups |-> <<"trend">>, max_consecutive |-> None]]

NoConsLast == [present |-> FALSE, name |-> "", count |-> 0, time |-> 0]

\* A filter that vetoes once the count has reached the maximum.
_detection_filter_consecutive_reached(detection_name, last) ==
    LET params == ConsParams[detection_name]
        record == last[params.groups[1]]
    IN  /\ record.present
        /\ params.max_consecutive # None /\ params.max_consecutive # 0
        /\ record.count >= params.max_consecutive

\* Detector._detection_filter_consecutive: TRUE when the detection is filtered.
\* An absent record is the KeyError branch.
_detection_filter_consecutive(detection_name, last) ==
    LET params == ConsParams[detection_name]
        record == last[params.groups[1]]
    IN  /\ record.present
        /\ params.max_consecutive # None /\ params.max_consecutive # 0
        /\ record.count > params.max_consecutive

\* Detector._update_detection_stats, its loop over params['groups'], for the
\* name, count and time of the records.
RECURSIVE ConsGroupLoop(_, _, _, _)
ConsGroupLoop(last, detection_name, current_time, i) ==
    LET groups == ConsParams[detection_name].groups
    IN  IF i > Len(groups) THEN last
        ELSE LET group == groups[i]
                 old == last[group]
                 new == IF old.present /\ old.name = detection_name
                        THEN [old EXCEPT !.count = @ + 1, !.time = current_time]
                        ELSE [present |-> TRUE, name |-> detection_name,
                              count |-> 1, time |-> current_time]
             IN  ConsGroupLoop([last EXCEPT ![group] = new], detection_name,
                               current_time, i + 1)

ConsInit ==
    /\ c_time = ConsStartTime
    /\ c_last = [g \in ConsGroups |-> NoConsLast]
    /\ c_run = [d \in ConsNameSet |-> 0]
    /\ c_index = 1
    /\ c_vetoed = {}

\* The pass of the tick is over; the update task brings the next tick of the
\* pair and process_detections is called again.
ConsNewTick ==
    /\ c_index > Len(ConsNames)
    /\ c_time + tick_interval_secs <= MaxTime_Cons
    /\ c_time' = c_time + tick_interval_secs
    /\ c_index' = 1
    /\ c_vetoed' = {}
    /\ UNCHANGED <<c_last, c_run>>
    /\ UNCHANGED notConsVars

\* process_detections: one iteration of its loop. `triggered` says whether
\* the detection is fully set; it has no other filter. _filter_detection runs
\* the max_consecutive filter when the parameter is set; when it passes, the
\* action is dispatched and _update_detection_stats is called.
ConsProcess(triggered) ==
    /\ c_index <= Len(ConsNames)
    /\ LET detection_name == ConsNames[c_index]
           params == ConsParams[detection_name]
           veto == /\ triggered
                   /\ params.max_consecutive # None
                   /\ _detection_filter_consecutive(detection_name, c_last)
       IN  IF triggered /\ ~veto
           THEN /\ c_vetoed' = c_vetoed
                /\ c_last' = ConsGroupLoop(c_last, detection_name, c_time, 1)
                /\ c_run' = [d \in ConsNameSet |->
                                IF d = detection_name THEN c_run[d] + 1
                                ELSE IF ConsParams[d].groups[1] \in
                                            {params.groups[i] : i \in 1..Len(params.groups)}
                                THEN 0
                                ELSE c_run[d]]
           ELSE /\ c_vetoed' = IF veto THEN c_vetoed \cup {detection_name} ELSE c_vetoed
                /\ UNCHANGED <<c_last, c_run>>
    /\ c_index' = c_index + 1
    /\ UNCHANGED c_time
    /\ UNCHANGED notConsVars

ConsNext ==
    \/ ConsNewTick
    \/ \E triggered \in BOOLEAN : ConsProcess(triggered)

(***************************************************************************)
(* The rule cache of update_detection_triggers when two conditions hold    *)
(* the same ma_crossover rule.                                             *)
(***************************************************************************)

MaxMemoTicks == 4     \* ticks after the first

MemoStartTime == tick_interval_secs
MaxTime_Memo == MemoStartTime + MaxMemoTicks * tick_interval_secs

\* config['detections'] of this run, in its order: the first condition of
\* "hold" and the condition of "quick" are the same rule tuple.
MemoNames == <<"hold", "quick">>

MemoDetections ==
    [hold |-> << << <<"ma_crossover", 1, 0>> >>, << <<"ma_position", 2, 0>> >> >>,
     quick |-> << << <<"ma_crossover", 1, 0>> >> >>]

MemoRules == {<<"ma_crossover", 1, 0>>, <<"ma_position", 2, 0>>}
MemoEmptyCache == [r \in MemoRules |-> NoEntry]

\* The rule cache handed to a check method: self.cache[pair]['rule'], or an
\* empty one when the rule is evaluated for the condition alone.
MemoCacheSeen(rcache, cached) == IF cached THEN rcache ELSE MemoEmptyCache

\* Detector._check_ma_position on the moving averages of this run.
MemoCheckPosition(rule, rcache) ==
    IF rcache[rule].hit
    THEN [state |-> rcache[rule].state, positions |-> rcache[rule].positions, cache |-> rcache]
    ELSE IF m_ma[rule[2]] = 0 \/ m_ma[rule[3]] = 0
    THEN [state |-> 0, positions |-> <<>>, cache |-> rcache]
    ELSE CacheResult(rcache, rule, IF m_ma[rule[2]] < m_ma[rule[3]] THEN 0 ELSE 1, <<>>)

\* Detector._check_ma_crossover: `stored` is detection_triggers[pair][detection_name].
MemoCheckCrossover(rule, condition_index, stored, rcache) ==
    IF rcache[rule].hit
    THEN [state |-> rcache[rule].state, positions |-> rcache[rule].positions, cache |-> rcache]
    ELSE IF m_ma_prev[rule[2]] = 0 \/ m_ma_prev[rule[3]] = 0
    THEN [state |-> 0, positions |-> <<0>>, cache |-> rcache]
    ELSE IF m_ma[rule[2]] < m_ma[rule[3]]
    THEN CacheResult(rcache, rule, 0, <<0>>)
    ELSE LET ma_crossover ==
                 IF /\ condition_index <= Len(stored)
                    /\ Len(stored[condition_index].ma_positions) > 0
                    /\ stored[condition_index].ma_positions[1] = 0
                 THEN 1 ELSE 0
         IN  CacheResult(rcache, rule, ma_crossover, <<1>>)

\* Detector._get_detection_trigger: its loop over the rules of the condition.
RECURSIVE MemoRuleLoop(_, _, _, _, _, _, _, _)
MemoRuleLoop(rules, stored, condition_index, i, states, positions, rcache, cached) ==
    IF i > Len(rules)
    THEN [trigger |-> [time |-> m_time,
                       set |-> IF SumSeq(states) = Len(states) THEN 1 ELSE 0,
                       ma_positions |-> positions],
          cache |-> rcache]
    ELSE LET seen == MemoCacheSeen(rcache, cached)
             r == IF rules[i][1] = "ma_crossover"
                  THEN MemoCheckCrossover(rules[i], condition_index, stored, seen)
                  ELSE MemoCheckPosition(rules[i], seen)
         IN  MemoRuleLoop(rules, stored, condition_index, i + 1,
                          Append(states, r.state), positions \o r.positions, r.cache, cached)

\* update_detection_triggers: its loop over the conditions of a detection.
RECURSIVE MemoConditionLoop(_, _, _, _, _, _)
MemoConditionLoop(detection_name, condition_index, triggers, tests, rcache, cached) ==
    IF condition_index > Len(MemoDetections[detection_name])
    THEN [triggers |-> triggers, tests |-> tests, cache |-> rcache]
    ELSE LET stored == m_triggers[detection_name]
             already_set == IF condition_index <= Len(stored)
                            THEN stored[condition_index].set ELSE 0
             got == MemoRuleLoop(MemoDetections[detection_name][condition_index], stored,
                                 condition_index, 1, <<>>, <<>>, rcache, cached)
             trigger == IF already_set # 0
                        THEN KeepTrigger(stored[condition_index], got.trigger)
                        ELSE got.trigger
         IN  MemoConditionLoop(detection_name, condition_index + 1,
                               Append(triggers, trigger), Append(tests, got.trigger),
                               got.cache, cached)

\* update_detection_triggers: its loop over config['detections'].
RECURSIVE MemoDetectionLoop(_, _, _, _, _)
MemoDetectionLoop(i, out, tests, rcache, cached) ==
    IF i > Len(MemoNames)
    THEN [triggers |-> out, tests |-> tests]
    ELSE LET r == MemoConditionLoop(MemoNames[i], 1, <<>>, <<>>, rcache, cached)
         IN  MemoDetectionLoop(i + 1, [out EXCEPT ![MemoNames[i]] = r.triggers],
                               [tests EXCEPT ![MemoNames[i]] = r.tests], r.cache, cached)

MemoNoTriggers == [d \in {"hold", "quick"} |-> <<>>]

MemoInit ==
    /\ m_time = MemoStartTime
    /\ m_ma = [w \in Windows |-> 1]
    /\ m_ma_prev = [w \in Windows |-> 1]
    /\ m_triggers = MemoNoTriggers
    /\ m_tests = MemoNoTriggers
    /\ m_alone = MemoNoTriggers
    /\ m_pc = "idle"

\* The update task brings the next tick of the pair.
MemoNewTick(new_ma) ==
    /\ m_pc = "idle"
    /\ m_time + tick_interval_secs <= MaxTime_Memo
    /\ m_time' = m_time + tick_interval_secs
    /\ m_ma' = new_ma
    /\ m_ma_prev' = m_ma
    /\ UNCHANGED <<m_triggers, m_tests, m_alone, m_pc>>
    /\ UNCHANGED notMemoVars

\* Detector.update_detection_triggers(pair): the rule cache is emptied and the
\* triggers of every condition are evaluated.
MemoUpdateTriggers ==
    /\ m_pc = "idle"
    /\ LET r == MemoDetectionLoop(1, MemoNoTriggers, MemoNoTriggers, MemoEmptyCache, TRUE)
           alone == MemoDetectionLoop(1, MemoNoTriggers, MemoNoTriggers, MemoEmptyCache, FALSE)
       IN  /\ m_triggers' = r.triggers
           /\ m_tests' = r.tests
           /\ m_alone' = alone.tests
    /\ m_pc' = "process"
    /\ UNCHANGED <<m_time, m_ma, m_ma_prev>>
    /\ UNCHANGED notMemoVars

\* Detector.process_detections(pair) for detections without filters: the
\* action of a fully set detection is dispatched and its triggers are cleared.
MemoProcessDetections ==
    /\ m_pc = "process"
    /\ m_triggers' =
           [d \in DOMAIN m_triggers |->
               IF \A c \in 1..Len(m_triggers[d]) : m_triggers[d][c].set = 1
               THEN <<>> ELSE m_triggers[d]]
    /\ m_pc' = "idle"
    /\ UNCHANGED <<m_time, m_ma, m_ma_prev, m_tests, m_alone>>
    /\ UNCHANGED notMemoVars

MemoNext ==
    \/ \E new_ma \in MaVectors : MemoNewTick(new_ma)
    \/ MemoUpdateTriggers
    \/ MemoProcessDetections

(***************************************************************************)
(* The state file of detection_triggers across a restart, for one pair    *)
(* and one detection of two conditions without filters.                    *)
(***************************************************************************)

MaxSaveTicks == 3        \* ticks after the first
MaxDispatched == 2       \* dispatches counted
SaveConditions == 2      \* conditions of the detection

SaveStartTime == tick_interval_secs
MaxTime_Save == SaveStartTime + MaxSaveTicks * tick_interval_secs

\* The tick times a restarted process can find: the one it stopped on, the
\* next, and one beyond the restore timeout.
SaveRestartGaps == {0, tick_interval_secs, detection_restore_timeout_secs + tick_interval_secs}

AllSet(triggers) == triggers # <<>> /\ \A c \in 1..Len(triggers) : triggers[c] = 1

\* update_detection_triggers for the detection: a condition that is already
\* set keeps its trigger, another gets the trigger of its rules. holds[c] is
\* the state of the rules of condition c on this tick.
SaveUpdateTriggers(triggers, holds) ==
    [c \in 1..SaveConditions |->
        IF c <= Len(triggers) /\ triggers[c] # 0 THEN triggers[c] ELSE holds[c]]

\* A condition of the detection becomes set in this update.
SetAnew(triggers, holds) ==
    \E c \in 1..SaveConditions :
        /\ ~(c <= Len(triggers) /\ triggers[c] # 0)
        /\ holds[c] = 1

\* A cycle of _process_trading: save_attr('detection_triggers') is called by
\* update_detection_triggers, and by nothing that runs after it.
SavedByCycle(updated, processed) == updated

SaveInit ==
    /\ s_time = SaveStartTime
    /\ s_running = TRUE
    /\ s_triggers = <<>>
    /\ s_saved = <<>>
    /\ s_saved_time = 0
    /\ s_dispatched = 0
    /\ s_anew = FALSE

\* The update task brings the next tick of the pair.
SaveNewTick ==
    /\ s_running
    /\ s_time + tick_interval_secs <= MaxTime_Save
    /\ s_time' = s_time + tick_interval_secs
    /\ UNCHANGED <<s_running, s_triggers, s_saved, s_saved_time, s_dispatched, s_anew>>
    /\ UNCHANGED notSaveVars

\* Application._process_trading for the pair: update_detection_triggers
\* evaluates the conditions and saves detection_stats and detection_triggers;
\* process_detections dispatches the action of the fully set detection and
\* clears its triggers.
SaveProcessTrading(holds) ==
    /\ s_running
    /\ LET updated == SaveUpdateTriggers(s_triggers, holds)
           fired == AllSet(updated)
           processed == IF fired THEN <<>> ELSE updated
       IN  /\ fired => s_dispatched < MaxDispatched
           /\ s_triggers' = processed
           /\ s_saved' = SavedByCycle(updated, processed)
           /\ s_saved_time' = s_time
           /\ s_dispatched' = IF fired THEN s_dispatched + 1 ELSE s_dispatched
           /\ s_anew' = IF fired THEN SetAnew(s_triggers, holds) ELSE s_anew
    /\ UNCHANGED <<s_time, s_running>>
    /\ UNCHANGED notSaveVars

\* The process ends; the state files stay.
SaveStop ==
    /\ s_running
    /\ s_running' = FALSE
    /\ s_triggers' = <<>>
    /\ UNCHANGED <<s_time, s_saved, s_saved_time, s_dispatched, s_anew>>
    /\ UNCHANGED notSaveVars

\* The process starts again, `gap` seconds of ticks later:
\* _ensure_startup_init calls restore_detection_triggers, which loads the state
\* file and drops the triggers of the pair when they are stale.
SaveStart(gap) ==
    /\ ~s_running
    /\ s_time <= MaxTime_Save
    /\ gap <= tick_interval_secs => s_time + gap <= MaxTime_Save
    /\ s_time' = s_time + gap
    /\ s_running' = TRUE
    /\ s_triggers' = IF s_saved # <<>> /\ ~IsStale(s_time', s_saved_time)
                     THEN s_saved ELSE <<>>
    /\ UNCHANGED <<s_saved, s_saved_time, s_dispatched, s_anew>>
    /\ UNCHANGED notSaveVars

SaveNext ==
    \/ SaveNewTick
    \/ \E holds \in [1..SaveConditions -> {0, 1}] : SaveProcessTrading(holds)
    \/ SaveStop
    \/ \E gap \in SaveRestartGaps : SaveStart(gap)

(***************************************************************************)
(* The detection statistics and the last detections of one pair, under     *)
(* the occurrence filter.                                                  *)
(***************************************************************************)

MaxStatTicks == 3     \* ticks after the first

StatStartTime == tick_interval_secs
MaxTime_Stat == StatStartTime + MaxStatTicks * tick_interval_secs

\* Detector._update_detection_stats, line 1330: the counter of the detection
\* in detection_stats[time_prefix][pair] after the call.
CountUpdate(count, detection_name) ==
    [count EXCEPT ![detection_name] = @ + 1]

StatInit ==
    /\ st_time = StatStartTime
    /\ st_last = [g \in Groups |-> NoLast]
    /\ st_states = [d \in DetectionSet |-> 0]
    /\ st_count = [d \in DetectionSet |-> 0]
    /\ st_index = 1
    /\ st_fired = ""

\* The pass of the tick is over; the update task brings the next tick of the
\* pair and process_detections is called again.
StatNewTick ==
    /\ st_index > Len(DetectionNames)
    /\ st_time + tick_interval_secs <= MaxTime_Stat
    /\ st_time' = st_time + tick_interval_secs
    /\ st_index' = 1
    /\ st_fired' = ""
    /\ UNCHANGED <<st_last, st_states, st_count>>
    /\ UNCHANGED notStatVars

\* process_detections: one iteration of its loop. `triggered` says whether
\* the detection is fully set and passes the filters that come before
\* 'occurrence'. The occurrence filter then runs: on a veto it has called
\* _update_detection_stats with the type 'skip'; when it passes, the action is
\* dispatched and _update_detection_stats is called without a type.
StatProcess(triggered) ==
    /\ st_index <= Len(DetectionNames)
    /\ LET detection_name == DetectionNames[st_index]
           r == _detection_filter_occurrence(detection_name, [current_time |-> st_time],
                    [occurrence |-> st_states[detection_name], last |-> st_last])
       IN  IF ~triggered
           THEN /\ st_fired' = ""
                /\ UNCHANGED <<st_last, st_states, st_count>>
           ELSE /\ st_states' = [st_states EXCEPT ![detection_name] = r.s.occurrence]
                /\ st_count' = CountUpdate(st_count, detection_name)
                /\ IF r.veto
                   THEN /\ st_last' = r.s.last
                        /\ st_fired' = ""
                   ELSE /\ st_last' = _update_detection_stats(r.s.last, detection_name,
                                           "None", st_time)
                        /\ st_fired' = detection_name
    /\ st_index' = st_index + 1
    /\ UNCHANGED st_time
    /\ UNCHANGED notStatVars

StatNext ==
    \/ StatNewTick
    \/ \E triggered \in BOOLEAN : StatProcess(triggered)

(***************************************************************************)
(* The triggers of one detection with the action 'buy' under a filter and  *)
(* the RSI state, with config['trade_use_indicators'] and                  *)
(* config['enable_rsi'] set.                                               *)
(***************************************************************************)

MaxVetoTicks == 4     \* ticks after the first
VetoConditions == 2   \* len(detection['conditions'])

VetoStartTime == tick_interval_secs
MaxTime_Veto == VetoStartTime + MaxVetoTicks * tick_interval_secs

VetoParams == [action |-> "buy"]

\* A detector whose veto leaves the triggers of the detection in place.
VetoedTriggers_kept(triggers) == triggers

\* Detector._filter_detection: self.detection_triggers[pair][detection_name] = []
\* after a filter method returned True and after the RSI skip.
VetoedTriggers(triggers) == <<>>

\* Detector.update_detection_triggers for the detection: a trigger that is set
\* stays set, any other takes the result of the rule tests of the tick.
VetoUpdateCondition(triggers, tests, i) ==
    IF i <= Len(triggers) /\ triggers[i] THEN TRUE ELSE tests[i]

VetoInit ==
    /\ v_time = VetoStartTime
    /\ v_triggers = <<>>
    /\ v_rsi = FALSE
    /\ v_pc = "update"
    /\ v_since = {}
    /\ v_dispatched = 0
    /\ v_vetoed = ""

\* _update_data_task: a tick of the pair has arrived; update_indicator_states
\* leaves the RSI descending or not, update_detection_triggers sets the triggers.
VetoUpdateTriggers(tests, descending) ==
    /\ v_pc = "update"
    /\ v_rsi' = descending
    /\ v_triggers' = [i \in 1..VetoConditions |-> VetoUpdateCondition(v_triggers, tests, i)]
    /\ v_since' = v_since \cup {i \in 1..VetoConditions : tests[i]}
    /\ v_vetoed' = ""
    /\ v_pc' = "process"
    /\ UNCHANGED <<v_time, v_dispatched>>
    /\ UNCHANGED notVetoVars

\* process_detections for the detection, to the next tick. `filter_veto` is
\* the verdict of the filter methods whose parameter is set.
VetoProcess(filter_veto) ==
    /\ v_pc = "process"
    /\ LET triggered == \A i \in 1..Len(v_triggers) : v_triggers[i]
           rsi_skip == /\ triggered /\ ~filter_veto
                       /\ VetoParams.action \in {"buy", "rebuy"}
                       /\ v_rsi
       IN  IF ~triggered
           THEN UNCHANGED <<v_triggers, v_since, v_dispatched, v_vetoed>>
           ELSE IF filter_veto \/ rsi_skip
           THEN /\ v_triggers' = VetoedTriggers(v_triggers)
                /\ v_since' = IF v_triggers' = <<>> THEN {} ELSE v_since
                /\ v_vetoed' = IF filter_veto THEN "filter" ELSE "rsi"
                /\ UNCHANGED v_dispatched
           ELSE /\ v_triggers' = <<>>
                /\ v_since' = {}
                /\ v_dispatched' = v_dispatched + 1
                /\ v_vetoed' = ""
    /\ v_time + tick_interval_secs <= MaxTime_Veto
    /\ v_time' = v_time + tick_interval_secs
    /\ v_pc' = "update"
    /\ UNCHANGED v_rsi
    /\ UNCHANGED notVetoVars

VetoNext ==
    \/ \E tests \in [1..VetoConditions -> BOOLEAN], descending \in BOOLEAN :
           VetoUpdateTriggers(tests, descending)
    \/ \E filter_veto \in BOOLEAN : VetoProcess(filter_veto)

(***************************************************************************)
(* The pairs of the services through a pairs refresh, the sync_pairs       *)
(* calls, the cleanup of untracked data, the data refresh and a tick       *)
(* cycle. trade_base is USDT and min_base_volumes has the base BTC, so     *)
(* USDT-BTC is the trade base pair the trader watches.                     *)
(***************************************************************************)

SyncPairs == {"BTC-ETH", "BTC-XRP", "USDT-BTC"}

\* config['base_pairs']
base_pairs == {"USDT-BTC"}

\* Trader._handle_trader_watch_pairs: the pairs of open trades and the trade
\* base pairs '{trade_base}-{base}' of config['min_base_volumes'].
WatchPairs(open) == open \cup {"USDT-BTC"}

\* Trader._set_watch_pair applied to each of `watch`: a pair that is not in
\* market.pairs leaves extra_base_pairs and joins pairs and watch_only_pairs.
_set_watch_pair(pairs_list, extra, watch) ==
    LET added == watch \ pairs_list
    IN  [pairs |-> pairs_list \cup added,
         extra_base_pairs |-> extra \ added,
         watch_only_pairs |-> added]

\* Detector.sync_pairs: the keys of detection_triggers after the call.
DetectorSync(triggers, pairs_list) == triggers \cap pairs_list

\* _clean_tick_data: the keys of close_times after the call.
CleanTickData(ticks, keep_pairs) == ticks \cap keep_pairs

SyncInit ==
    /\ y_pairs = {}
    /\ y_extra = {}
    /\ y_watch = {}
    /\ y_open = {}
    /\ y_triggers = {}
    /\ y_ticks = {}
    /\ y_pc = "refresh_pairs"

\* Market.refresh_pairs: `selected` are the pairs that pass the filters.
SyncRefreshPairs(selected) ==
    /\ y_pc = "refresh_pairs"
    /\ y_pairs' = selected
    /\ y_extra' = base_pairs \ selected
    /\ y_pc' = "trader"
    /\ UNCHANGED <<y_watch, y_open, y_triggers, y_ticks>>
    /\ UNCHANGED notSyncVars

\* Trader.sync_pairs.
SyncTrader ==
    /\ y_pc = "trader"
    /\ LET r == _set_watch_pair(y_pairs, y_extra, WatchPairs(y_open))
       IN  /\ y_pairs' = r.pairs
           /\ y_extra' = r.extra_base_pairs
           /\ y_watch' = r.watch_only_pairs
    /\ y_pc' = "detector"
    /\ UNCHANGED <<y_open, y_triggers, y_ticks>>
    /\ UNCHANGED notSyncVars

\* Detector.sync_pairs.
SyncDetector ==
    /\ y_pc = "detector"
    /\ y_triggers' = DetectorSync(y_triggers, y_pairs)
    /\ y_pc' = "clean"
    /\ UNCHANGED <<y_pairs, y_extra, y_watch, y_open, y_ticks>>
    /\ UNCHANGED notSyncVars

\* _refresh_data_task: _clean_untracked_data.
SyncClean ==
    /\ y_pc = "clean"
    /\ y_ticks' = CleanTickData(y_ticks, y_pairs \cup y_extra)
    /\ y_pc' = "load"
    /\ UNCHANGED <<y_pairs, y_extra, y_watch, y_open, y_triggers>>
    /\ UNCHANGED notSyncVars

\* _refresh_data_task: refresh_tick_data for the new pairs; `failed` are the
\* pairs for which the API returned no tick data (the call returns None and
\* _init_market_data does nothing).
SyncLoad(failed) ==
    /\ y_pc = "load"
    /\ LET new_pairs == (y_pairs \cup y_extra) \ y_ticks
       IN  /\ failed \subseteq new_pairs
           /\ y_ticks' = y_ticks \cup (new_pairs \ failed)
    /\ y_pc' = "cycle"
    /\ UNCHANGED <<y_pairs, y_extra, y_watch, y_open, y_triggers>>
    /\ UNCHANGED notSyncVars

\* _update_data_task: one tick cycle. _clean_untracked_data, then
\* _process_trading sets the triggers of the pairs of market.pairs that have
\* data; `bought` are the pairs a trade is opened for, `closed` the pairs whose
\* trades are all closed. The pairs task may refresh before the next cycle.
SyncCycle(bought, closed, refresh) ==
    /\ y_pc = "cycle"
    /\ y_ticks' = CleanTickData(y_ticks, y_pairs \cup y_extra)
    /\ y_triggers' = y_triggers \cup (y_pairs \cap y_ticks)
    /\ bought \subseteq (y_pairs \cap y_ticks) \ y_watch
    /\ closed \subseteq y_open
    /\ y_open' = (y_open \ closed) \cup bought
    /\ y_pc' = IF refresh THEN "refresh_pairs" ELSE "cycle"
    /\ UNCHANGED <<y_pairs, y_extra, y_watch>>
    /\ UNCHANGED notSyncVars

SyncNext ==
    \/ \E selected \in SUBSET SyncPairs : SyncRefreshPairs(selected)
    \/ SyncTrader
    \/ SyncDetector
    \/ SyncClean
    \/ \E failed \in SUBSET SyncPairs : SyncLoad(failed)
    \/ \E bought \in SUBSET SyncPairs, closed \in SUBSET SyncPairs, refresh \in BOOLEAN :
           SyncCycle(bought, closed, refresh)

(***************************************************************************)
(* The greylist of Market through the calls of refresh_pairs. The pair     *)
(* prefer filter is off and the node split is not used.                    *)
(***************************************************************************)

MaxGreySteps == 5     \* clock steps of the run
max_pairs == 2        \* config['max_pairs']

GreyPairs == {"BTC-ETH", "BTC-XRP", "BTC-LTC"}
GreyClockStep == pairs_greylist_secs \div 2
GreyStartTime == tick_interval_secs
MaxTime_Grey == GreyStartTime + MaxGreySteps * GreyClockStep

\* The orders the filtered market summaries can list pairs in, by volume.
VolumeOrders ==
    {s \in UNION {[1..n -> GreyPairs] : n \in 0..Cardinality(GreyPairs)} :
        \A i, j \in 1..Len(s) : i # j => s[i] # s[j]}

\* A greylist whose entries end only after the expiry time.
_handle_greylisted_late(entries, pair, time_now) ==
    LET expired == entries[pair] # 0 /\ time_now > entries[pair]
    IN  [greylisted |-> entries[pair] # 0 /\ ~expired,
         greylist |-> IF expired THEN [entries EXCEPT ![pair] = 0] ELSE entries]

\* Market._handle_greylisted: the verdict and the greylist it leaves.
_handle_greylisted(entries, pair, time_now) ==
    LET expired == entries[pair] # 0 /\ time_now >= entries[pair]
    IN  [greylisted |-> entries[pair] # 0 /\ ~expired,
         greylist |-> IF expired THEN [entries EXCEPT ![pair] = 0] ELSE entries]

\* Market.refresh_pairs: its loop over the pairs sorted by volume, from the
\* i-th on. The result is [pairs, greylist, reached].
RECURSIVE RefreshPairsLoop(_, _, _)
RefreshPairsLoop(volumes, i, r) ==
    IF i > Len(volumes) THEN r
    ELSE LET pair == volumes[i]
             h == _handle_greylisted(r.greylist, pair, g_now)
             reached == r.reached \cup {pair}
         IN  IF h.greylisted
             THEN RefreshPairsLoop(volumes, i + 1,
                      [r EXCEPT !.greylist = h.greylist, !.reached = reached])
             ELSE LET selected == Append(r.pairs, pair)
                      next == [pairs |-> selected, greylist |-> h.greylist,
                               reached |-> reached]
                  IN  IF max_pairs # 0 /\ Len(selected) >= max_pairs THEN next
                      ELSE RefreshPairsLoop(volumes, i + 1, next)

GreyInit ==
    /\ g_now = GreyStartTime
    /\ g_pairs = <<>>
    /\ g_greylist = [p \in GreyPairs |-> 0]
    /\ g_reached = {}

\* The clock: time.time() moves on between two calls.
GreyAdvance ==
    /\ g_now + GreyClockStep <= MaxTime_Grey
    /\ g_now' = g_now + GreyClockStep
    /\ g_reached' = {}
    /\ UNCHANGED <<g_pairs, g_greylist>>
    /\ UNCHANGED notGreyVars

\* Market.refresh_pairs; with `summaries` None the call returns at once.
GreyRefreshPairs(summaries, volumes) ==
    /\ IF summaries = None
       THEN /\ g_reached' = {}
            /\ UNCHANGED <<g_pairs, g_greylist>>
       ELSE LET r == RefreshPairsLoop(volumes, 1,
                         [pairs |-> <<>>, greylist |-> g_greylist, reached |-> {}])
            IN  /\ g_pairs' = r.pairs
                /\ g_greylist' = r.greylist
                /\ g_reached' = r.reached
    /\ UNCHANGED g_now
    /\ UNCHANGED notGreyVars

\* Market.update_tick_data finds an excessive tick gap for a pair of
\* Market.pairs: the pair is removed and greylisted.
GreyUpdateTick(pair) ==
    /\ \E i \in 1..Len(g_pairs) : g_pairs[i] = pair
    /\ g_pairs' = SelectSeq(g_pairs, LAMBDA p : p # pair)
    /\ g_greylist' = [g_greylist EXCEPT ![pair] = IF @ = 0 THEN g_now + pairs_greylist_secs
                                                  ELSE @]
    /\ g_reached' = {}
    /\ UNCHANGED g_now
    /\ UNCHANGED notGreyVars

GreyNext ==
    \/ GreyAdvance
    \/ \E summaries \in {None, 1}, volumes \in VolumeOrders :
           GreyRefreshPairs(summaries, volumes)
    \/ \E pair \in GreyPairs : GreyUpdateTick(pair)

(***************************************************************************)
(* One pair through update cycles that may start before the next tick      *)
(* boundary: update_tick_data, then update_derived_data.                    *)
(***************************************************************************)

MaxEarlySteps == 6    \* clock steps of half a tick interval

MaxTime_Early == StartTime + MaxEarlySteps * (tick_interval_secs \div 2)

\* _get_tick_delta: the current tick boundary is the last stored tick time.
TooEarly(times, current_time) ==
    /\ Len(times) > 0
    /\ current_time - (current_time % tick_interval_secs) = Last(times)

\* A store that appends at least one element in every cycle.
EarlyUpdateMas_one(values, window, num, ma_seq) ==
    TruncateMa(UpdateMaLoop(values, window, Len(values) - (IF num = 0 THEN 1 ELSE num),
                            Len(values), ma_seq))

\* Market.update_mas for one window with last_update_nums[pair] = num.
EarlyUpdateMas(values, window, num, ma_seq) ==
    update_mas(values, window, num, ma_seq)

EarlyInit ==
    /\ e_now = StartTime
    /\ e_ticks = LoadedTicks
    /\ e_in_pairs = TRUE
    /\ e_greylist = 0
    /\ e_mas = [w \in MaWindowSet |-> refresh_mas(LoadedTicks.values, w)]
    /\ e_bands = refresh_bbands(LoadedTicks.values,
                                [w \in MaWindowSet |-> refresh_mas(LoadedTicks.values, w)])
    /\ e_pc = "tick"
    /\ e_returned = "idle"

\* The clock moves on between two update cycles.
EarlyAdvance(dt) ==
    /\ e_pc = "tick"
    /\ e_now + dt <= MaxTime_Early
    /\ e_now' = e_now + dt
    /\ UNCHANGED <<e_ticks, e_in_pairs, e_greylist, e_mas, e_bands, e_pc, e_returned>>
    /\ UNCHANGED notEarlyVars

\* _update_data_task: the update_tick_data task of the pair.
EarlyUpdateTickData(close_value) ==
    /\ e_pc = "tick"
    /\ e_in_pairs
    /\ LET result == UpdateTick(e_ticks, e_in_pairs, e_greylist, e_now, close_value)
       IN  /\ e_ticks' = result.ticks
           /\ e_in_pairs' = result.in_pairs
           /\ e_greylist' = result.greylist_time
           /\ e_returned' = result.returned
    /\ e_pc' = "derive"
    /\ UNCHANGED <<e_now, e_mas, e_bands>>
    /\ UNCHANGED notEarlyVars

\* _process_market_data: update_derived_data for the pair, which has tick data.
EarlyUpdateDerivedData ==
    /\ e_pc = "derive"
    /\ e_mas' = [w \in MaWindowSet |->
                    EarlyUpdateMas(e_ticks.values, w, e_ticks.nums, e_mas[w])]
    /\ e_bands' = update_bbands(e_ticks.values, e_mas', e_ticks.nums, e_bands)
    /\ e_pc' = "tick"
    /\ UNCHANGED <<e_now, e_ticks, e_in_pairs, e_greylist, e_returned>>
    /\ UNCHANGED notEarlyVars

EarlyNext ==
    \/ \E dt \in {tick_interval_secs \div 2, tick_interval_secs} : EarlyAdvance(dt)
    \/ \E close_value \in Prices \cup {0} : EarlyUpdateTickData(close_value)
    \/ EarlyUpdateDerivedData

(***************************************************************************)
(* The schedule of back-refreshes of two pairs through the calls of        *)
(* check_back_refreshes.                                                   *)
(***************************************************************************)

MaxSchedTicks == 4    \* ticks after the first
\* The entries scheduled in a run: one more than a check may fetch.
MaxScheduled == back_refresh_max_per_tick + 1

SchedPairs == {"BTC-ETH", "BTC-XRP"}
SchedStartTime == tick_interval_secs
MaxTime_Sched == SchedStartTime + MaxSchedTicks * tick_interval_secs

\* A check that goes on after back_refresh_max_per_tick fetches.
LimitReached_never(refreshes) == FALSE

\* check_back_refreshes: `if refreshes >= config['back_refresh_max_per_tick']: break`.
LimitReached(refreshes) == refreshes >= back_refresh_max_per_tick

\* check_back_refreshes: its loop from the entry at `index` on. The result is
\* [remove, fetched]: the indexes to remove and the numbers of the entries
\* whose ticks were fetched, in the order of the fetches.
RECURSIVE CheckLoop(_, _, _, _, _)
CheckLoop(refreshes_list, index, last_time, tracked, r) ==
    IF index > Len(refreshes_list) THEN r
    ELSE LET refresh == refreshes_list[index]
             due == last_time > refresh.time
             after == IF ~due THEN r
                      ELSE [remove |-> r.remove \cup {index},
                            fetched |-> IF refresh.pair \in tracked
                                        THEN Append(r.fetched, refresh.id)
                                        ELSE r.fetched]
         IN  IF LimitReached(Len(after.fetched)) THEN after
             ELSE CheckLoop(refreshes_list, index + 1, last_time, tracked, after)

\* check_back_refreshes: `del self.back_refreshes[index]` for the indexes to remove.
RemoveIndexes(refreshes_list, remove) ==
    LET kept == {i \in 1..Len(refreshes_list) : i \notin remove}
        Nth(k) == CHOOSE i \in kept : Cardinality({j \in kept : j < i}) = k - 1
    IN  [k \in 1..Cardinality(kept) |-> refreshes_list[Nth(k)]]

SchedInit ==
    /\ q_time = SchedStartTime
    /\ q_refreshes = <<>>
    /\ q_tracked = SchedPairs
    /\ q_scheduled = 0
    /\ q_done = [id \in 1..MaxScheduled |-> 0]
    /\ q_fetches = 0

\* The next tick of the base pair has been stored.
SchedNewTick ==
    /\ q_time + tick_interval_secs <= MaxTime_Sched
    /\ q_time' = q_time + tick_interval_secs
    /\ q_fetches' = 0
    /\ UNCHANGED <<q_refreshes, q_tracked, q_scheduled, q_done>>
    /\ UNCHANGED notSchedVars

\* update_tick_data of a pair has interpolated `num` ticks:
\* _schedule_back_refresh appends an entry, without random scatter.
SchedSchedule(pair, num) ==
    /\ pair \in q_tracked
    /\ q_scheduled < MaxScheduled
    /\ q_scheduled' = q_scheduled + 1
    /\ q_refreshes' = Append(q_refreshes,
                          [pair |-> pair, id |-> q_scheduled + 1,
                           time |-> q_time + FutureSecs(num)])
    /\ q_fetches' = 0
    /\ UNCHANGED <<q_time, q_tracked, q_done>>
    /\ UNCHANGED notSchedVars

\* _clean_tick_data: a pair that left the pairs loses its tick data.
SchedClean(pair) ==
    /\ pair \in q_tracked
    /\ pair # "BTC-ETH"
    /\ q_tracked' = q_tracked \ {pair}
    /\ q_fetches' = 0
    /\ UNCHANGED <<q_time, q_refreshes, q_scheduled, q_done>>
    /\ UNCHANGED notSchedVars

\* Market.check_back_refreshes, at the end of an update cycle.
SchedCheck ==
    /\ q_refreshes # <<>>
    /\ LET r == CheckLoop(q_refreshes, 1, q_time, q_tracked,
                          [remove |-> {}, fetched |-> <<>>])
       IN  /\ q_refreshes' = RemoveIndexes(q_refreshes, r.remove)
           /\ q_done' = [id \in 1..MaxScheduled |->
                            q_done[id] + Cardinality({i \in 1..Len(r.fetched) :
                                                        r.fetched[i] = id})]
           /\ q_fetches' = Len(r.fetched)
    /\ UNCHANGED <<q_time, q_tracked, q_scheduled>>
    /\ UNCHANGED notSchedVars

SchedNext ==
    \/ SchedNewTick
    \/ \E pair \in SchedPairs, num \in 1..TickGapMax : SchedSchedule(pair, num)
    \/ \E pair \in SchedPairs : SchedClean(pair)
    \/ SchedCheck

(***************************************************************************)
(* The moving averages of one pair from refresh_mas on, updated by         *)
(* update_mas as ticks are appended, for sources of any length.            *)
(***************************************************************************)

MaxIncLen == 5        \* longest source series
MaxNewTicks == 2      \* most ticks one load or one update appends

IncWindows == 1..MaxWindow

\* common.math.ar_moving_average(source, window)[window:] over the whole
\* source: what refresh_mas computes from a source it does not cut.
FullRecompute(source, window) ==
    PySlice(ar_moving_average(source, window), window, Len(source))

IncInit ==
    /\ i_source = <<>>
    /\ i_mas = [w \in IncWindows |-> <<>>]
    /\ i_num = 0

\* Market.refresh_tick_data and Market.refresh_mas: the pair gets its first
\* ticks and its moving averages.
IncRefresh(values) ==
    /\ i_source = <<>>
    /\ values # <<>>
    /\ i_source' = values
    /\ i_mas' = [w \in IncWindows |-> refresh_mas(values, w)]
    /\ i_num' = 0
    /\ UNCHANGED notIncVars

\* An update cycle: update_tick_data appends the ticks `new`, update_mas runs
\* with last_update_nums[pair] = len(new).
IncUpdate(new) ==
    /\ i_source # <<>>
    /\ new # <<>>
    /\ Len(i_source) + Len(new) <= MaxIncLen
    /\ i_source' = i_source \o new
    /\ i_num' = Len(new)
    /\ i_mas' = [w \in IncWindows |-> update_mas(i_source', w, Len(new), i_mas[w])]
    /\ UNCHANGED notIncVars

IncNext ==
    \/ \E values \in SeqsUpTo(Prices, MaxNewTicks) : IncRefresh(values)
    \/ \E new \in SeqsUpTo(Prices, MaxNewTicks) : IncUpdate(new)

(***************************************************************************)
(* The tick data and the adjusted series of one pair that is not a trade   *)
(* base pair, through update cycles on every tick. Each element of a       *)
(* derived series stands for the close time of the tick it was made from.  *)
(***************************************************************************)

MaxAlignTicks == 63   \* ticks after the start of the run

MaxTime_Align == StartTime + MaxAlignTicks * tick_interval_secs

\* Market._truncate_adjusted_tick_data: a derived series after the call, for
\* tick data of the length `ticks_len`.
_truncate_adjusted_tick_data(series, ticks_len) ==
    LET truncate == ticks_len - MinTickLength
    IN  IF truncate > TruncateSlack THEN DropN(series, truncate) ELSE series

\* Market.update_adjusted_tick_data with Market._update_volume_derivatives.
\* The result is [adjusted, derivs, last].
update_adjusted_tick_data(times, adjusted, derivs, last_time) ==
    LET start_index == IndexOf(times, last_time)
        diff == Len(times) - start_index
        source_length == Len(times)
        appended == adjusted \o [j \in 1..diff |-> times[start_index + j]]
        derived == derivs \o [j \in 1..diff |-> times[source_length - diff + j]]
    IN  [adjusted |-> _truncate_adjusted_tick_data(appended, Len(times)),
         derivs |-> _truncate_adjusted_tick_data(derived, Len(times)),
         last |-> Last(times)]

\* Market.refresh_derived_data has run for the pair after its tick data were
\* loaded: every derived series has one element for each tick.
AlignInit ==
    /\ a_now = StartTime
    /\ a_ticks = LoadedTicks
    /\ a_adjusted = LoadedTicks.times
    /\ a_derivs = LoadedTicks.times
    /\ a_last_adjusted = Last(LoadedTicks.times)
    /\ a_pc = "tick"
    /\ a_cut = FALSE

\* _update_data_task: the next cycle starts one tick interval later.
AlignAdvance ==
    /\ a_pc = "wait"
    /\ a_now + tick_interval_secs <= MaxTime_Align
    /\ a_now' = a_now + tick_interval_secs
    /\ a_pc' = "tick"
    /\ UNCHANGED <<a_ticks, a_adjusted, a_derivs, a_last_adjusted, a_cut>>
    /\ UNCHANGED notAlignVars

\* _update_data_task: the update_tick_data task of the pair; the exchange
\* answers the request.
AlignUpdateTickData ==
    /\ a_pc = "tick"
    /\ LET result == UpdateTick(a_ticks, TRUE, 0, a_now, HistoricPrice(a_now))
       IN  /\ a_ticks' = result.ticks
           /\ a_cut' = (a_cut \/ (result.returned = "pair"
                                    /\ Len(result.ticks.times) <= Len(a_ticks.times)))
    /\ a_pc' = "derive"
    /\ UNCHANGED <<a_now, a_adjusted, a_derivs, a_last_adjusted>>
    /\ UNCHANGED notAlignVars

\* _process_market_data: update_derived_data for the pair.
AlignUpdateDerivedData ==
    /\ a_pc = "derive"
    /\ LET r == update_adjusted_tick_data(a_ticks.times, a_adjusted, a_derivs,
                                          a_last_adjusted)
       IN  /\ a_adjusted' = r.adjusted
           /\ a_derivs' = r.derivs
           /\ a_last_adjusted' = r.last
    /\ a_pc' = "wait"
    /\ UNCHANGED <<a_now, a_ticks, a_cut>>
    /\ UNCHANGED notAlignVars

AlignNext ==
    \/ AlignAdvance
    \/ AlignUpdateTickData
    \/ AlignUpdateDerivedData

(***************************************************************************)
(* The five event-loop tasks of the live mode between their suspension     *)
(* points, the user interrupt signal, the error callback and the shutdown  *)
(* of the application. A task is at the await where it is suspended; the   *)
(* code between two awaits, the loop test included, runs in one step.      *)
(***************************************************************************)

app_max_interrupts == 5   \* defaults.APP_MAX_INTERRUPTS

MaxSignals == 6   \* user interrupt signals in one run

TaskNames == {"refresh_pairs", "refresh_data", "update_data", "update_rollover", "follow_up_snapshots"}

\* The positions where a task has left the event loop for good.
Stopped == {"ended", "failed", "cancelled"}

\* `while not interrupt.is_set():` at the head of every task.
LoopCondition_always(flag) == TRUE

LoopCondition(flag) == ~flag

\* The first await of an iteration of the task.
FirstAwait(task, first_done) ==
    CASE task = "refresh_pairs" -> IF first_done THEN "interval" ELSE "lock"
      [] task = "refresh_data" -> "pairs_refreshed"
      [] task = "update_data" -> "data_refreshed"
      [] task = "update_rollover" -> "lock"
      [] task = "follow_up_snapshots" -> "data_refreshed"

\* The loop test of the task and what follows it up to the next await.
NextIteration(task, flag, first_done) ==
    IF LoopCondition(flag) THEN FirstAwait(task, first_done) ELSE "ended"

\* Application._shutdown: task.cancel() for every task; a task that is done
\* ignores it. The pools are closed and joined, the logger is stopped.
_shutdown(positions) ==
    [task \in TaskNames |-> IF positions[task] \in Stopped THEN positions[task] ELSE "cancelled"]

\* Pool.close() changes the state of a running pool only.
ClosePool(state) == IF state = "run" THEN "close" ELSE state

StopInit ==
    /\ z_interrupt = FALSE
    /\ z_interrupts = 0
    /\ z_pc = [task \in TaskNames |-> "created"]
    /\ z_pairs_refreshed = FALSE
    /\ z_data_refreshed = FALSE
    /\ z_first = FALSE
    /\ z_lock = "none"
    /\ z_live = "sleep"
    /\ z_pools = "run"
    /\ z_shutdown = FALSE

\* The event loop runs tasks until Application.execute has returned.
LoopRuns == z_live # "exited"

\* A created task runs for the first time.
StopStart(task) ==
    /\ LoopRuns
    /\ z_pc[task] = "created"
    /\ z_pc' = [z_pc EXCEPT ![task] = NextIteration(task, z_interrupt, z_first)]
    /\ UNCHANGED <<z_interrupt, z_interrupts, z_pairs_refreshed, z_data_refreshed, z_first, z_lock, z_live, z_pools, z_shutdown>>
    /\ UNCHANGED notStopVars

\* _wait_for_pairs_refresh and _wait_for_data_refresh: the task goes on when
\* the event is set.
StopWaitEvent(task) ==
    /\ LoopRuns
    /\ \/ /\ z_pc[task] = "pairs_refreshed"
          /\ z_pairs_refreshed
          /\ z_pc' = [z_pc EXCEPT ![task] = "lock"]
       \/ /\ z_pc[task] = "data_refreshed"
          /\ z_data_refreshed
          /\ z_pc' = [z_pc EXCEPT ![task] = IF task = "update_data" THEN "interval" ELSE "lock"]
       \/ /\ z_pc[task] = "data_refreshed_again"
          /\ z_data_refreshed
          /\ z_pc' = [z_pc EXCEPT ![task] = "lock"]
    /\ UNCHANGED <<z_interrupt, z_interrupts, z_pairs_refreshed, z_data_refreshed, z_first, z_lock, z_live, z_pools, z_shutdown>>
    /\ UNCHANGED notStopVars

\* _wait_for_interval has returned.
StopWaitInterval(task) ==
    /\ LoopRuns
    /\ z_pc[task] = "interval"
    /\ z_pc' = [z_pc EXCEPT ![task] = IF task = "update_data" THEN "data_refreshed_again" ELSE "lock"]
    /\ UNCHANGED <<z_interrupt, z_interrupts, z_pairs_refreshed, z_data_refreshed, z_first, z_lock, z_live, z_pools, z_shutdown>>
    /\ UNCHANGED notStopVars

\* Market.acquire_data_lock has returned.
StopAcquire(task) ==
    /\ LoopRuns
    /\ z_pc[task] = "lock"
    /\ z_lock = "none"
    /\ z_lock' = task
    /\ z_pc' = [z_pc EXCEPT ![task] = "body"]
    /\ UNCHANGED <<z_interrupt, z_interrupts, z_pairs_refreshed, z_data_refreshed, z_first, z_live, z_pools, z_shutdown>>
    /\ UNCHANGED notStopVars

\* The work under the data lock is done: the task releases the lock and runs
\* to its next await, which is the sleep at the end of the iteration or, for
\* the data tasks, the first await of the next iteration.
StopRelease(task) ==
    /\ LoopRuns
    /\ z_pc[task] = "body"
    /\ z_lock' = "none"
    /\ z_pairs_refreshed' = CASE task = "refresh_pairs" -> TRUE
                              [] task = "refresh_data" -> FALSE
                              [] OTHER -> z_pairs_refreshed
    /\ z_data_refreshed' = IF task = "refresh_data" THEN TRUE ELSE z_data_refreshed
    /\ z_first' = IF task = "refresh_data" THEN TRUE ELSE z_first
    /\ z_pc' = [z_pc EXCEPT ![task] =
                   IF task \in {"refresh_data", "update_data"}
                   THEN NextIteration(task, z_interrupt, z_first')
                   ELSE "sleep"]
    /\ UNCHANGED <<z_interrupt, z_interrupts, z_live, z_pools, z_shutdown>>
    /\ UNCHANGED notStopVars

\* asyncio.sleep at the end of an iteration has returned; the pairs task
\* clears data_refreshed before its loop test.
StopSleepDone(task) ==
    /\ LoopRuns
    /\ z_pc[task] = "sleep"
    /\ z_data_refreshed' = IF task = "refresh_pairs" THEN FALSE ELSE z_data_refreshed
    /\ z_pc' = [z_pc EXCEPT ![task] = NextIteration(task, z_interrupt, z_first)]
    /\ UNCHANGED <<z_interrupt, z_interrupts, z_pairs_refreshed, z_first, z_lock, z_live, z_pools, z_shutdown>>
    /\ UNCHANGED notStopVars

\* The work of a task under the data lock raises: the done callback of
\* utils.async_task calls Application._error_cb.
StopError(task) ==
    /\ LoopRuns
    /\ z_pc[task] = "body"
    /\ z_interrupt' = TRUE
    /\ z_pc' = _shutdown([z_pc EXCEPT ![task] = "failed"])
    /\ z_pools' = ClosePool(z_pools)
    /\ z_shutdown' = TRUE
    /\ UNCHANGED <<z_interrupts, z_pairs_refreshed, z_data_refreshed, z_first, z_lock, z_live>>
    /\ UNCHANGED notStopVars

\* signal_handler of Application._hook_user_interrupt.
StopSignal ==
    /\ LoopRuns
    /\ z_interrupts < MaxSignals
    /\ z_interrupt' = TRUE
    /\ z_interrupts' = z_interrupts + 1
    /\ IF z_interrupts' >= app_max_interrupts
       THEN /\ z_pools' = "terminate"
            /\ z_pc' = _shutdown(z_pc)
            /\ z_shutdown' = TRUE
       ELSE UNCHANGED <<z_pools, z_pc, z_shutdown>>
    /\ UNCHANGED <<z_pairs_refreshed, z_data_refreshed, z_first, z_lock, z_live>>
    /\ UNCHANGED notStopVars

\* Application._live: `while not interrupt.is_set(): await asyncio.sleep(1.0)`
\* after a sleep that found the flag set.
StopLive ==
    /\ z_live = "sleep"
    /\ z_interrupt
    /\ z_live' = "returned"
    /\ UNCHANGED <<z_interrupt, z_interrupts, z_pc, z_pairs_refreshed, z_data_refreshed, z_first, z_lock, z_pools, z_shutdown>>
    /\ UNCHANGED notStopVars

\* Application.execute calls _shutdown after _live and returns; the event
\* loop of run_until_complete stops.
StopExecute ==
    /\ z_live = "returned"
    /\ z_live' = "exited"
    /\ z_pc' = _shutdown(z_pc)
    /\ z_pools' = ClosePool(z_pools)
    /\ z_shutdown' = TRUE
    /\ UNCHANGED <<z_interrupt, z_interrupts, z_pairs_refreshed, z_data_refreshed, z_first, z_lock>>
    /\ UNCHANGED notStopVars

StopNext ==
    \/ \E task \in TaskNames : StopStart(task)
    \/ \E task \in TaskNames : StopWaitEvent(task)
    \/ \E task \in TaskNames : StopWaitInterval(task)
    \/ \E task \in TaskNames : StopAcquire(task)
    \/ \E task \in TaskNames : StopRelease(task)
    \/ \E task \in TaskNames : StopSleepDone(task)
    \/ \E task \in TaskNames : StopError(task)
    \/ StopSignal
    \/ StopLive
    \/ StopExecute

Init == TickInit /\ DetInit /\ AppInit /\ IndInit /\ MathIdle /\ ChgInit /\ BackInit /\ UpdInit /\ RuleInit /\ RstInit /\ FollowIdle /\ FollowAllIdle /\ OvlInit /\ ConsInit /\ MemoInit /\ SaveInit /\ StatInit /\ VetoInit /\ SyncInit /\ GreyInit /\ EarlyInit /\ SchedInit /\ IncInit /\ AlignInit /\ StopInit

MathInit == TickInit /\ DetInit /\ AppInit /\ IndInit /\ MathInputs /\ ChgInit /\ BackInit /\ UpdInit /\ RuleInit /\ RstInit /\ FollowIdle /\ FollowAllIdle /\ OvlInit /\ ConsInit /\ MemoInit /\ SaveInit /\ StatInit /\ VetoInit /\ SyncInit /\ GreyInit /\ EarlyInit /\ SchedInit /\ IncInit /\ AlignInit /\ StopInit

FollowInit == TickInit /\ DetInit /\ AppInit /\ IndInit /\ MathIdle /\ ChgInit /\ BackInit /\ UpdInit /\ RuleInit /\ RstInit /\ FollowInputs /\ FollowAllIdle /\ OvlInit /\ ConsInit /\ MemoInit /\ SaveInit /\ StatInit /\ VetoInit /\ SyncInit /\ GreyInit /\ EarlyInit /\ SchedInit /\ IncInit /\ AlignInit /\ StopInit

Spec == Init /\ [][Next]_vars

TickSpec == Init /\ [][TickNext]_vars

AppSpec == Init /\ [][AppNext]_vars

IndSpec == Init /\ [][IndNext]_vars

MathSpec == MathInit /\ [][MathNext]_vars

ChgSpec == Init /\ [][ChgNext]_vars

BackSpec == Init /\ [][BackNext]_vars

UpdSpec == Init /\ [][UpdNext]_vars

RuleSpec == Init /\ [][RuleNext]_vars

RstSpec == Init /\ [][RstNext]_vars

FollowSpec == FollowInit /\ [][FollowNext]_vars

OvlSpec == Init /\ [][OvlNext]_vars

ConsSpec == Init /\ [][ConsNext]_vars

MemoSpec == Init /\ [][MemoNext]_vars

SaveSpec == Init /\ [][SaveNext]_vars

StatSpec == Init /\ [][StatNext]_vars

VetoSpec == Init /\ [][VetoNext]_vars

SyncSpec == Init /\ [][SyncNext]_vars

GreySpec == Init /\ [][GreyNext]_vars

EarlySpec == Init /\ [][EarlyNext]_vars

SchedSpec == Init /\ [][SchedNext]_vars

IncSpec == Init /\ [][IncNext]_vars

AlignSpec == Init /\ [][AlignNext]_vars

StopSpec == Init /\ [][StopNext]_vars

\* ---- properties of the application's tasks ----------------------------

\* Where a task is between its acquire_data_lock and its data_lock.release().
InCriticalSection ==
    {t \in DOMAIN pc :
        \/ t = "pairs" /\ pc[t] \in {"refresh_pairs", "sync_pairs"}
        \/ t = "data" /\ pc[t] \in {"refresh", "release"}
        \/ t = "update" /\ pc[t] \in {"cycle", "release"}
        \/ t = "rollover" /\ pc[t] = "sync"}

\* C7: at most one task is between its acquire_data_lock and its
\* data_lock.release(), and that task is the holder of the lock: the critical
\* section of the pairs refresh never overlaps an update cycle or a data refresh.
DataLockExclusion ==
    /\ Cardinality(InCriticalSection) <= 1
    /\ \A t \in InCriticalSection : data_lock = t

\* The pairs refresh is in its critical section while the update task and the
\* data refresh task wait for the lock.
PairsRefreshOthersWait ==
    /\ pc.pairs = "refresh_pairs"
    /\ pc.update = "acquire"
    /\ pc.data = "acquire"

InCycle == pc.update = "cycle"

\* C9: within a cycle, once the detection triggers of some pair have been
\* evaluated, update_derived_data has run for every pair of Market.pairs that
\* holds tick data.
DataBeforeDetection ==
    (InCycle /\ triggers_updated # {}) => WithData \subseteq derived_updated

\* Two pairs with data: both have their derived data, the triggers of the
\* first have been evaluated, those of the second not yet.
DerivedThenDetection ==
    /\ InCycle
    /\ WithData = AllPairs
    /\ derived_updated = AllPairs
    /\ triggers_updated = {PairOrder[1]}

\* C10, as stated: within a cycle, once trade management has run for some pair,
\* the detections of every pair with data have been evaluated and processed.
AllDetectionsBeforeTrades ==
    (InCycle /\ trades_updated # {}) =>
        (WithData \subseteq triggers_updated /\ WithData \subseteq detections_processed)

\* C10, amended: within a cycle, trade management runs for a pair only after
\* the detection triggers of that pair have been evaluated and its detections
\* processed.
PairDetectionsBeforeTrades ==
    InCycle =>
        /\ trades_updated \subseteq detections_processed
        /\ detections_processed \subseteq triggers_updated

\* Trade management has run for the first pair, the detections of the second
\* pair have not been looked at yet.
TradesOfFirstPairDone ==
    /\ InCycle
    /\ WithData = AllPairs
    /\ trades_updated = {PairOrder[1]}
    /\ detections_processed = {PairOrder[1]}
    /\ triggers_updated = {PairOrder[1]}

\* ---- properties of the derived data -----------------------------------

\* C11: truncation bound. After every operation of an update cycle the tick
\* arrays of the pair and every indicator array (each moving average window and
\* the Bollinger high and low sequences) hold at most min_tick_length + 60
\* elements.
TruncationBound ==
    /\ Len(close_times) <= MinTickLength + TruncateSlack
    /\ Len(close_values) <= MinTickLength + TruncateSlack
    /\ \A w \in MaWindowSet : Len(close_value_mas[w]) <= MinTickLength + TruncateSlack
    /\ Len(bollinger_bands.H) <= MinTickLength + TruncateSlack
    /\ Len(bollinger_bands.L) <= MinTickLength + TruncateSlack

\* What the truncations of update_tick_data and update_mas do keep.
TickAndMaBound ==
    /\ Len(close_times) <= MinTickLength + TruncateSlack
    /\ Len(close_values) <= MinTickLength + TruncateSlack
    /\ \A w \in MaWindowSet : Len(close_value_mas[w]) <= MinTickLength + TruncateSlack

\* The tick arrays and the moving averages have been cut back to min_tick_length.
ArraysTruncated ==
    /\ now > StartTime + TruncateSlack * tick_interval_secs
    /\ DerivedInStep
    /\ Len(close_times) < TruncateSlack
    /\ \A w \in MaWindowSet : Len(close_value_mas[w]) = MinTickLength

\* ---- properties of the moving average function ------------------------

\* C14: MA correctness. The array ar_moving_average returns for a series and a
\* window has the length of the series; at each (0-based) index i >= window it
\* holds the mean of series[i-window:i], the `window` elements before index i,
\* and at each index i < window the placeholder 0.
MaCorrectness ==
    ma_returned =>
        /\ Len(ma_result) = Len(ma_source)
        /\ \A i \in 0..(Len(ma_source) - 1) :
               IF i >= ma_window_size
               THEN ma_result[i + 1] * ma_window_size
                        = SumSeq(SubSeq(ma_source, i - ma_window_size + 1, i))
               ELSE ma_result[i + 1] = 0

\* A call whose result holds placeholders and means of two different values.
MaOfMixedSeries ==
    /\ ma_returned
    /\ ma_window_size = 2
    /\ ma_source = <<120, 240, 240, 120>>
    /\ ma_result = <<0, 0, 180, 240>>

\* ---- properties of the change filter ----------------------------------

\* The cumulative delta of a refresh: the stored delta plus the new change.
CumulativeDelta == last_pairs.delta + last_pairs'.change

\* C12: dip-filter hysteresis. An included pair stays included while its
\* cumulative change delta is above -change_dip and is dropped once the
\* cumulative delta is at -change_dip or below; a dropped pair does not
\* re-enter before its cumulative delta is at least +change_min. (With
\* change_min = 0.01 and change_dip = 0.02: still included at -0.019.)
DipStep ==
    /\ (last_pairs.present /\ ~last_pairs.filtered /\ CumulativeDelta > 0 - pair_change_dip)
           => ~last_pairs'.filtered
    /\ (last_pairs.present /\ ~last_pairs.filtered /\ CumulativeDelta <= 0 - pair_change_dip)
           => last_pairs'.filtered
    /\ (last_pairs.present /\ last_pairs.filtered /\ CumulativeDelta < pair_change_min)
           => last_pairs'.filtered

DipHysteresis == [][DipStep]_vars

\* What the filter does: an included pair is dropped at -change_cutoff, and a
\* dropped pair re-enters exactly when its cumulative delta is at least
\* +change_min.
CutoffStep ==
    /\ (last_pairs.present /\ ~last_pairs.filtered)
           => (last_pairs'.filtered <=> CumulativeDelta <= 0 - pair_change_cutoff)
    /\ (last_pairs.present /\ last_pairs.filtered)
           => (last_pairs'.filtered <=> CumulativeDelta < pair_change_min)

CutoffHysteresis == [][CutoffStep]_vars

\* The pair entered at +0.01, fell by 0.029 to a cumulative -0.019 and was dropped.
DroppedAboveDip ==
    /\ last_pairs.present
    /\ last_pairs.filtered
    /\ last_pairs.change = 0 - 290
    /\ last_pairs.delta = 0 - 190

\* ---- properties of the back-refreshes ---------------------------------

\* The back-refreshes of the latest call whose fetched history covers their range.
Covered(log) ==
    {i \in 1..Len(log) :
        \A k \in 0..((log[i].end - log[i].start) \div tick_interval_secs - 1) :
            IndexOf(log[i].fetched.times, log[i].start + k * tick_interval_secs) # 0}

InRange(entry, t) == entry.start <= t /\ t < entry.end

\* The executed back-refreshes all had their range covered.
AllCovered(log) == Covered(log) = 1..Len(log)

\* C13: backfill overwrite. When a scheduled back-refresh with the range
\* [start, end) executes and the fetched history covers the range, every
\* stored tick value whose timestamp lies in [start, end) is replaced by the
\* fetched value for the same timestamp, and every stored tick value with a
\* timestamp outside the range is unchanged.
OverwriteStep ==
    (back_log' # back_log /\ back_log' # <<>> /\ AllCovered(back_log')) =>
        \A i \in 1..Len(close_times) :
            IF \E e \in 1..Len(back_log') : InRange(back_log'[e], close_times[i])
            THEN LET e == CHOOSE e \in 1..Len(back_log') : InRange(back_log'[e], close_times[i])
                     fetched == back_log'[e].fetched
                 IN  close_values'[i] = fetched.values[IndexOf(fetched.times, close_times[i])]
            ELSE close_values'[i] = close_values[i]

BackfillOverwrite == [][OverwriteStep]_vars

\* What the overwrite does keep: the values outside the ranges are unchanged.
OutsideStep ==
    (back_log' # back_log /\ back_log' # <<>>) =>
        \A i \in 1..Len(close_times) :
            (~\E e \in 1..Len(back_log') : InRange(back_log'[e], close_times[i]))
                => close_values'[i] = close_values[i]

OutsideUnchanged == [][OutsideStep]_vars

\* ---- properties of the tick update tasks ------------------------------

\* The tick gap update_tick_data finds for a pair, -1 when it finds no new tick.
FoundGap(pair) == _get_tick_delta(pair_ticks[pair].times, now)[2]

\* The step is the end of the pair's task of this cycle.
TaskEnds(pair) == task_result[pair] = "pending" /\ task_result'[pair] # "pending"

\* C15: an excessive tick gap is handled by greylisting. If update_tick_data
\* finds a tick gap greater than tick_gap_max for a pair, the pair is removed
\* from Market.pairs and is on the greylist with an expiry pairs_greylist_secs
\* ahead, its stored series is unchanged, the task returns (None) without an
\* exception, and nothing of another pair is touched; the other pairs' tasks
\* of the cycle still append their ticks.
GreylistStep ==
    \A p \in AllPairs :
        (TaskEnds(p) /\ FoundGap(p) > TickGapMax) =>
            /\ p \notin market_pairs'
            /\ greylist'[p] = now + pairs_greylist_secs
            /\ pair_ticks'[p].times = pair_ticks[p].times
            /\ pair_ticks'[p].values = pair_ticks[p].values
            /\ task_result'[p] = "None"
            /\ \A q \in AllPairs \ {p} :
                   /\ pair_ticks'[q] = pair_ticks[q]
                   /\ task_result'[q] = task_result[q]
                   /\ greylist'[q] = greylist[q]
                   /\ (q \in market_pairs' <=> q \in market_pairs)

OthersProceed ==
    \A q \in AllPairs :
        task_result[q] = "pair" =>
            Last(pair_ticks[q].times) = now - (now % tick_interval_secs)

OtherTaskStep ==
    \A p \in AllPairs, q \in AllPairs :
        (p # q /\ greylist[p] # 0 /\ TaskEnds(q) /\ FoundGap(q) \in 0..TickGapMax
              /\ pair_ticks'[q].nums # 0)
            => task_result'[q] = "pair"

UnknownActionStep ==
    \A i \in 1..Len(futures) :
        (futures[i].st = "running" /\ futures[i].action \notin action_methods
             /\ futures' # <<>> /\ futures'[i].st # "running")
            => /\ futures'[i].st = "done"
               /\ futures'[i].alerted
               /\ ~action_lock'

UnknownActionFallsBack == [][UnknownActionStep]_vars

\* The dispatch of the detection with the unknown action has ended with the
\* alert sent and the lock free, and the pass has gone on to await it.
UnknownActionAlerted ==
    /\ dpc = "await"
    /\ ~action_lock
    /\ \E i \in 1..Len(futures) :
           /\ futures[i].action \notin action_methods
           /\ futures[i].st = "done"
           /\ futures[i].alerted

\* ---- properties of the rule evaluation ---------------------------------

HasMalformed(rules) == \E i \in 1..Len(rules) : rules[i] \in MalformedRules

\* The state _check_ma_position gives a well-formed rule on the current MAs.
PositionState(rule) ==
    IF ma[rule[2]] = 0 \/ ma[rule[3]] = 0 THEN 0
    ELSE IF ma[rule[2]] < ma[rule[3]] THEN 0 ELSE 1

\* C17: rule errors leave the condition unset. The trigger returned for a
\* condition with a malformed rule (unknown name, window index out of range,
\* wrong tuple shape) has set = 0.
MalformedUnset ==
    (chk_trigger.set # None /\ HasMalformed(chk_rules)) => chk_trigger.set = 0

\* What the code does instead: a malformed rule is left out, and the condition
\* comes back set exactly when every well-formed rule of it holds.
IgnoredStep ==
    ruleVars' # ruleVars =>
        (chk_trigger'.set = 1 <=>
            \A i \in 1..Len(chk_rules') :
                chk_rules'[i] \in WellFormedRules => PositionState(chk_rules'[i]) = 1)

MalformedIgnored == [][IgnoredStep]_vars

\* A condition of nothing but malformed rules has come back set.
MalformedOnlySet ==
    /\ chk_rules # <<>>
    /\ \A i \in 1..Len(chk_rules) : chk_rules[i] \in MalformedRules
    /\ chk_trigger.set = 1

\* ---- properties of the restore ------------------------------------------

\* C18: restore discards stale triggers. The persisted triggers of the pair
\* are discarded on restore when they were last updated more than
\* detection_restore_timeout_secs before the pair's latest tick time, and are
\* kept when they were updated within that time.
RestoreDiscardsStale ==
    restore_log.done =>
        (restore_log.dropped <=>
            restore_log.current_time - restore_log.stored_time
                > detection_restore_timeout_secs)

\* The same for a restart within the rollover period of the last update.
RestoreSamePeriod ==
    (restore_log.done /\ get_rollover_time_str(restore_log.current_time)
                          = get_rollover_time_str(restore_log.stored_time))
        => (restore_log.dropped <=>
               restore_log.current_time - restore_log.stored_time
                   > detection_restore_timeout_secs)

\* Triggers updated within the timeout were dropped by a restore.
FreshDropped ==
    /\ restore_log.done
    /\ restore_log.dropped
    /\ restore_log.current_time - restore_log.stored_time <= detection_restore_timeout_secs

\* ---- properties of the occurrence filter --------------------------------

\* The entry process_detections has just logged.
LastPass == pass_log'[Len(pass_log')]

\* The detection is fully set and the time frame filter, which precedes the
\* occurrence filter, vetoes it.
EarlierVeto(entry) ==
    /\ entry.all_set
    /\ entry.time_frame < get_detection_params(entry.name).time_frame_min

\* The detection is fully set and passes the filters before the occurrence filter.
ReachesOccurrence(entry) == entry.all_set /\ ~EarlierVeto(entry)

\* C19: occurrence filter. For the detection with occurrence = 2, each cycle in
\* which it is fully set and passes the preceding filters adds one to its
\* counter, the action is dispatched only on the pass that brings the counter
\* to the occurrence, which resets the counter to 0, and a veto of a preceding
\* filter resets the counter to 0 as well.
OccurrenceStep ==
    (IsProcessStep /\ LastPass.name = "twice") =>
        LET occurrence == get_detection_params("twice").occurrence
            before == detection_states["twice"]
            after == detection_states'["twice"]
        IN  /\ (ReachesOccurrence(LastPass) /\ before + 1 < occurrence)
                   => (after = before + 1 /\ futures' = futures)
            /\ (ReachesOccurrence(LastPass) /\ before + 1 >= occurrence) => after = 0
            /\ futures' # futures => ReachesOccurrence(LastPass)
            /\ EarlierVeto(LastPass) => after = 0

OccurrenceFilter == [][OccurrenceStep]_vars

\* What the code does: the counter moves only when the occurrence filter runs.
CountingStep ==
    (IsProcessStep /\ LastPass.name = "twice") =>
        LET occurrence == get_detection_params("twice").occurrence
            before == detection_states["twice"]
            after == detection_states'["twice"]
        IN  /\ (ReachesOccurrence(LastPass) /\ before + 1 < occurrence)
                   => (after = before + 1 /\ futures' = futures)
            /\ (ReachesOccurrence(LastPass) /\ before + 1 >= occurrence) => after = 0
            /\ futures' # futures => ReachesOccurrence(LastPass)
            /\ ~ReachesOccurrence(LastPass) => after = before

OccurrenceCounting == [][CountingStep]_vars

\* The counter has survived a veto of the time frame filter.
CounterKeptOnVeto ==
    /\ pass_log # <<>>
    /\ pass_log[Len(pass_log)].name = "twice"
    /\ pass_log[Len(pass_log)].all_set
    /\ pass_log[Len(pass_log)].time_frame < get_detection_params("twice").time_frame_min
    /\ detection_states["twice"] > 0

\* ---- properties of the follow filter ------------------------------------

\* The follow-rule passes: it matches the last detection of one of its groups.
RulePasses(item) ==
    \E j \in 1..Len(FollowRule(item).groups) :
        ~_filter_follow_rule_group(FollowRule(item), FollowRule(item).groups[j],
                                   fl_last, FollowTime, FollowValue)

\* C20 as stated: a detection with follow-rules is not vetoed by the follow
\* filter only if every follow-rule of the list passes, and is vetoed if one
\* of them fails.
FollowRequiresAll ==
    (fl_returned /\ fl_follow # <<>>) =>
        (~fl_veto <=> \A i \in 1..Len(fl_follow) : RulePasses(fl_follow[i]))

\* C20: follow filter. The detection is not vetoed by the follow filter exactly
\* when at least one follow-rule of the list passes; it is vetoed when every
\* follow-rule fails.
FollowRequiresAny ==
    fl_returned => (~fl_veto <=> \E i \in 1..Len(fl_follow) : RulePasses(fl_follow[i]))

\* A list of two rules of which one passes and one fails was not vetoed.
FollowOnePassesOneFails ==
    /\ fl_returned
    /\ ~fl_veto
    /\ Len(fl_follow) = 2
    /\ RulePasses(fl_follow[1])
    /\ ~RulePasses(fl_follow[2])

\* ---- properties of the follow_all filter --------------------------------

\* C21 as stated: a detection with follow_all rules is vetoed by the follow_all
\* filter only if every follow-rule of the list fails for every group, and is
\* not vetoed if one of them matches.
FollowAllVetoNeedsAllFail ==
    (fa_returned /\ fl_follow # <<>>) =>
        (fa_veto <=> \A i \in 1..Len(fl_follow) : ~RulePasses(fl_follow[i]))

\* C21: follow_all filter. The detection is not vetoed by the follow_all filter
\* exactly when every follow-rule of the list matches for one of its groups;
\* it is vetoed as soon as one follow-rule fails for all its groups.
FollowAllRequiresEvery ==
    fa_returned => (~fa_veto <=> \A i \in 1..Len(fl_follow) : RulePasses(fl_follow[i]))

\* A list of two rules of which one matches and one fails was vetoed.
FollowAllOneFailsVetoed ==
    /\ fa_returned
    /\ fa_veto
    /\ Len(fl_follow) = 2
    /\ RulePasses(fl_follow[1])
    /\ ~RulePasses(fl_follow[2])

\* ---- properties of the flash crash guard --------------------------------

\* The ratio of the pair's latest close value to the previous one is at or
\* below detection_flash_crash_sens. The moving average of window index 0 is
\* taken over one tick, so ma[0] and ma_prev[0] are the two close values.
ValueCrash ==
    /\ ma_prev[0] > 0
    /\ ma[0] * detection_flash_crash_sens_den <= ma_prev[0] * detection_flash_crash_sens_num

\* C22: the flash crash guard defers without cancelling. When a detection is
\* fully set, passes its filters and the close value has fallen to
\* detection_flash_crash_sens of the previous close value or below, its action
\* is not dispatched in that cycle and its triggers stay set.
CrashStep ==
    (IsProcessStep /\ ValueCrash /\ LastPass.all_set /\ ~LastPass.vetoed) =>
        /\ futures' = futures
        /\ detection_triggers'[LastPass.name] # <<>>
        /\ \A c \in 1..Len(detection_triggers'[LastPass.name]) :
               detection_triggers'[LastPass.name][c].set = 1

FlashCrashDefers == [][CrashStep]_vars

\* What the code does: the guard divides the last two close times, which never
\* gives a ratio at or below the sensitivity, so no action is ever deferred.
GuardNeverDefers ==
    /\ ~FlashCrash
    /\ \A k \in 1..Len(pass_log) : ~pass_log[k].deferred

\* An action was dispatched in the cycle of a fall of the close value to half.
DispatchedInCrash ==
    /\ dpc = "await"
    /\ ValueCrash
    /\ futures # <<>>

\* ---- properties of the overlap filter -----------------------------------

\* The step runs the buy action of the detection `name`.
BuyRuns(name) ==
    \E i \in 1..Len(o_futures) :
        /\ o_futures[i].name = name
        /\ o_futures[i].st = "created"
        /\ o_futures' # <<>>
        /\ o_futures'[i].st = "done"

\* C23: overlap filter. The buy action of the detection with overlap = N
\* minutes never runs less than N minutes after a trade was opened for the
\* pair, a trade opened earlier in the same pass included.
OverlapStep ==
    BuyRuns("late_buy") =>
        (last_open_time = 0 \/ o_time - last_open_time >= OverlapMins * 60)

OverlapFilter == [][OverlapStep]_vars

\* What the code does: the filter vetoes the detection when, at the time the
\* loop of the pass reaches it, a trade is open that was opened less than N
\* minutes ago.
VetoStep ==
    (o_pc = "process" /\ o_vetoed' # o_vetoed) =>
        LET name == OvlNames[o_index]
        IN  /\ name \in o_vetoed'
            /\ open_trades > 0
            /\ o_time - last_open_time < OvlParams[name].overlap * 60

OverlapAtFilterTime == [][VetoStep]_vars

\* Both buys of one pass have run and the first opened a trade on this tick.
BothBoughtInOnePass ==
    /\ Len(o_futures) = 2
    /\ \A i \in 1..2 : o_futures[i].st = "done"
    /\ last_open_time = o_time

\* ---- properties of the max_consecutive filter ---------------------------

\* C24: max_consecutive filter. The detection with max_consecutive = N is
\* dispatched at most N times in a row without a different detection of its
\* group firing in between.
ConsecutiveLimit == c_run["capped"] <= MaxConsecutive

\* What the code does: the detection is dispatched at most N + 1 times in a
\* row, the filter comparing the count with `>`.
ConsecutiveLimitPlusOne == c_run["capped"] <= MaxConsecutive + 1

\* The filter vetoed the detection after N + 1 dispatches in a row.
ConsecutiveVetoed == "capped" \in c_vetoed /\ c_run["capped"] = MaxConsecutive + 1

\* ---- properties of the filter chain -------------------------------------

\* C25: filter chain order and short-circuit. The time frame filter precedes
\* the occurrence filter in filter_methods, and when it vetoes the fully set
\* detection with occurrence = 2 the chain ends: the occurrence counter is not
\* incremented, the statistics get no 'skip' update, nothing is dispatched and
\* the triggers of the detection are cleared.
ShortCircuitStep ==
    (IsProcessStep /\ LastPass.name = "twice" /\ EarlierVeto(LastPass)) =>
        /\ LastPass.vetoed
        /\ detection_states' = detection_states
        /\ last_detections' = last_detections
        /\ futures' = futures
        /\ detection_triggers'["twice"] = <<>>

MemoTransparent == m_tests = m_alone

\* What the cache keeps apart: the positions of the moving averages, which do
\* not depend on the condition.
MemoSamePositions ==
    \A d \in DOMAIN m_tests : \A c \in 1..Len(m_tests[d]) :
        m_tests[d][c].ma_positions = m_alone[d][c].ma_positions

\* The condition of "quick" missed the crossover its own stored position shows.
MemoCrossoverMissed ==
    /\ m_pc = "process"
    /\ m_tests["quick"][1].set = 0
    /\ m_alone["quick"][1].set = 1

\* ---- properties of the saved triggers -----------------------------------

\* C27: no re-dispatch after restart. Every dispatch follows a cycle in which
\* a condition of the detection became set anew; the triggers restored after
\* a restart never bring a dispatch of their own.
RedispatchStep == s_dispatched' # s_dispatched => s_anew'

NoRedispatchAfterRestart == [][RedispatchStep]_vars

\* What the state file holds: the triggers as update_detection_triggers left
\* them, all set included, until the next cycle of the pair.
SavedFromUpdate == s_saved # <<>> => s_saved_time <= s_time

\* The state file holds the all set triggers of a dispatched detection.
SavedAllSetAfterDispatch ==
    /\ s_running
    /\ s_dispatched > 0
    /\ AllSet(s_saved)
    /\ s_triggers = <<>>

\* ---- properties of the action lock --------------------------------------

\* C28: locks are always released. The action lock is held only while a
\* dispatch task runs its action: once the task has finished, by a return or
\* by an exception of the action, the lock is free for the next dispatch.
ActionLockReleased ==
    action_lock => \E i \in 1..Len(futures) : futures[i].st = "running"

\* What the code does: the lock is free after every dispatch whose action
\* returned or raised KeyError.
ActionLockReleasedOnReturn ==
    (action_lock /\ \A i \in 1..Len(futures) : futures[i].st # "failed")
        => \E i \in 1..Len(futures) : futures[i].st = "running"

\* A dispatch task waits for the lock that a failed task left held.
BlockedByFailedDispatch ==
    /\ action_lock
    /\ \E i \in 1..Len(futures) : futures[i].st = "failed"
    /\ \E i \in 1..Len(futures) : futures[i].st = "created"
    /\ \A i \in 1..Len(futures) : futures[i].st # "running"

\* ---- properties of the refresh events -----------------------------------

\* C29: refresh-before-update handshake. After a pairs refresh that changed
\* Market.pairs, the update task holds the data lock for a tick cycle only
\* once the data refresh task has ended its refresh for these pairs.
RefreshBeforeUpdate == pc.update \in {"cycle", "release"} => ~pairs_changed

\* What the events give: a cycle starts only after the first data refresh.
UpdateAfterFirstRefresh == pc.update \in {"cycle", "release"} => first_refresh_completed

\* A tick cycle runs on pairs that a pairs refresh brought and that wait for
\* their data refresh.
CycleBeforeDataRefresh ==
    /\ pc.update = "cycle"
    /\ pairs_changed
    /\ pairs_refreshed
    /\ pc.data \in {"wait_pairs", "acquire"}

\* ---- properties of the last detections ----------------------------------

\* The groups of a detection.
GroupsOf(detection_name) ==
    LET groups == get_detection_params(detection_name).groups
    IN  {groups[i] : i \in 1..Len(groups)}

\* C30: LastDetectionRecord update. When a detection fires, the record of each
\* of its groups has afterwards its name and the tick time of the pair, and
\* its count is the count before plus one when the record named the detection
\* and 1 when there was none or it named another detection.
LastDetectionStep ==
    (IsProcessStep /\ futures' # futures) =>
        \A g \in GroupsOf(LastPass.name) :
            /\ last_detections'[g].present
            /\ last_detections'[g].name = LastPass.name
            /\ last_detections'[g].time = tick_time
            /\ last_detections'[g].count =
                   IF last_detections[g].present /\ last_detections[g].name = LastPass.name
                   THEN last_detections[g].count + 1
                   ELSE 1

LastDetectionUpdated == [][LastDetectionStep]_vars

\* A detection has fired on a record that named it: the count has grown.
FiredAgain ==
    /\ pass_log # <<>>
    /\ futures # <<>>
    /\ futures[Len(futures)].name = pass_log[Len(pass_log)].name
    /\ futures[Len(futures)].st = "created"
    /\ \E g \in GroupsOf(pass_log[Len(pass_log)].name) :
           /\ last_detections[g].name = pass_log[Len(pass_log)].name
           /\ last_detections[g].time = tick_time
           /\ last_detections[g].count >= 2

\* ---- properties of the type of the last detections ----------------------

\* C31: record type after dispatch. When a detection fires, the record of each
\* of its groups has afterwards the configured type of the detection, never
\* the type 'skip' that a vetoing filter wrote in an earlier pass.
RecordTypeStep ==
    st_fired' # "" =>
        \A g \in GroupsOf(st_fired') :
            st_last'[g].type = get_detection_params(st_fired').type

RecordTypeAfterDispatch == [][RecordTypeStep]_vars

\* What the code does: the type is written only when the record is reset, so
\* a record that names the detection keeps the type it had.
TypeKeptStep ==
    st_fired' # "" =>
        \A g \in GroupsOf(st_fired') :
            (st_last[g].present /\ st_last[g].name = st_fired')
                => st_last'[g].type = st_last[g].type

RecordTypeKept == [][TypeKeptStep]_vars

\* The detection with occurrence = 2 has fired and its record has the type 'skip'.
FiredWithSkipType ==
    /\ st_fired = "twice"
    /\ st_last["default"].name = "twice"
    /\ st_last["default"].type = "skip"

\* C32: the detection statistics are firing counters. In one iteration of the
\* detection loop the count of a detection never decreases, grows by exactly
\* one when the detection fires, and stays as it is when it does not fire.
FiringCounterStep ==
    \A d \in DetectionSet :
        /\ st_count'[d] >= st_count[d]
        /\ (st_fired' = d /\ st_index' # st_index) => st_count'[d] = st_count[d] + 1
        /\ ~(st_fired' = d /\ st_index' # st_index) => st_count'[d] = st_count[d]

StatsAreFiringCounters == [][FiringCounterStep]_vars

\* What the code does: the count grows by one in every call of
\* _update_detection_stats, the calls of a vetoing filter included, and
\* never decreases.
CountPerCallStep ==
    \A d \in DetectionSet :
        /\ st_count'[d] \in {st_count[d], st_count[d] + 1}
        /\ (st_fired' = d /\ st_index' # st_index) => st_count'[d] = st_count[d] + 1

CountGrowsPerCall == [][CountPerCallStep]_vars

\* The detection with occurrence = 2 was counted although it has never fired.
CountedWithoutFiring ==
    /\ st_count["twice"] = 1
    /\ st_states["twice"] = 1
    /\ st_fired = ""
    /\ st_index = Len(DetectionNames) + 1

\* C33: a veto consumes the trigger state. When a fully set detection is
\* vetoed by a filter or by the RSI skip, no action is dispatched in that
\* pass and the triggers of the detection are emptied; an action is
\* dispatched only when every condition was set by a rule test made since
\* the triggers were last emptied.
VetoConsumesStep ==
    /\ v_vetoed' # "" => (v_dispatched' = v_dispatched /\ v_triggers' = <<>>)
    /\ v_dispatched' # v_dispatched => v_since = 1..VetoConditions

VetoConsumesTriggers == [][VetoConsumesStep]_vars

\* The RSI skip vetoed the fully set detection after the filters had passed,
\* on a tick after the one it was dispatched on.
VetoedByRsi ==
    /\ v_vetoed = "rsi"
    /\ v_triggers = <<>>
    /\ v_since = {}
    /\ v_dispatched = 1

\* C34: pair-set synchronization. After a pairs refresh, the two sync_pairs
\* calls and the cleanup of untracked data, the pairs with detection triggers
\* and the pairs with stored tick data are exactly the pairs of market.pairs.
PairSetSynchronized ==
    y_pc = "load" => (y_triggers = y_pairs /\ y_ticks = y_pairs)

\* What the code does: after the cleanup no pair outside market.pairs has
\* detection triggers and no pair outside market.pairs and extra_base_pairs
\* has tick data.
NoStalePairState ==
    y_pc = "load" => (y_triggers \subseteq y_pairs /\ y_ticks \subseteq y_pairs \cup y_extra)

\* After tick cycles with BTC-ETH alone, a refresh has added BTC-XRP: the
\* cleanup is over and the new pair has neither tick data nor triggers.
NewPairWithoutState ==
    /\ y_pc = "load"
    /\ "BTC-ETH" \in y_triggers
    /\ "BTC-XRP" \in y_pairs
    /\ "BTC-XRP" \notin y_ticks
    /\ "BTC-XRP" \notin y_triggers

\* C35: greylist expiry. A pair greylisted until E is not among the pairs a
\* refresh_pairs call made before E selects and keeps its entry; the first
\* refresh_pairs call made at or after E whose loop comes to the pair removes
\* the entry and selects the pair.
GreylistExpiryStep ==
    \A p \in GreyPairs :
        (g_greylist[p] # 0 /\ g_reached' # {}) =>
            IF g_now < g_greylist[p]
            THEN /\ \A i \in 1..Len(g_pairs') : g_pairs'[i] # p
                 /\ g_greylist'[p] = g_greylist[p]
            ELSE p \in g_reached' =>
                     /\ g_greylist'[p] = 0
                     /\ \E i \in 1..Len(g_pairs') : g_pairs'[i] = p

GreylistExpiry == [][GreylistExpiryStep]_vars

\* A refresh made exactly at the expiry time of BTC-ETH has reached the pair,
\* removed its entry and selected it, while BTC-XRP is still greylisted.
ExpiredAtRefresh ==
    /\ "BTC-ETH" \in g_reached
    /\ g_greylist["BTC-ETH"] = 0
    /\ \E i \in 1..Len(g_pairs) : g_pairs[i] = "BTC-ETH"
    /\ g_now = GreyStartTime + 2 * GreyClockStep
    /\ "BTC-XRP" \in g_reached
    /\ g_greylist["BTC-XRP"] > g_now

\* C36: a too-early update is a no-op. When update_tick_data runs while the
\* current tick boundary is the last stored tick time, it returns None, the
\* ticks, the backup, the scheduled back-refreshes and the greylist are as
\* before, the pair stays in Market.pairs and last_update_nums is 0; the
\* update of the derived data of that cycle appends nothing.
TooEarlyStep ==
    /\ (e_pc = "tick" /\ e_pc' = "derive" /\ TooEarly(e_ticks.times, e_now)) =>
           /\ e_returned' = "None"
           /\ e_ticks' = [e_ticks EXCEPT !.nums = 0]
           /\ e_in_pairs' /\ e_greylist' = e_greylist
    /\ (e_pc = "derive" /\ e_pc' = "tick" /\ e_returned = "None"
            /\ TooEarly(e_ticks.times, e_now)) =>
           /\ e_mas' = e_mas
           /\ e_bands' = e_bands

SchedDue(i) == q_time > q_refreshes[i].time

\* The fetches a check has made when its loop is past the entry at index k.
SchedFetchesTo(k) ==
    Cardinality({j \in 1..k : SchedDue(j) /\ q_refreshes[j].pair \in q_tracked})

SchedReached(i) == i = 1 \/ SchedFetchesTo(i - 1) < back_refresh_max_per_tick

BackfillStep ==
    /\ \A id \in 1..MaxScheduled : q_done'[id] <= 1
    /\ (q_done' # q_done \/ Len(q_refreshes') < Len(q_refreshes)) =>
           /\ q_fetches' <= back_refresh_max_per_tick
           /\ q_refreshes' = SelectSeq(q_refreshes,
                                 LAMBDA x : \E i \in 1..Len(q_refreshes) :
                                     /\ q_refreshes[i] = x
                                     /\ ~(SchedDue(i) /\ SchedReached(i)))
           /\ \A i \in 1..Len(q_refreshes) :
                  q_done'[q_refreshes[i].id] = q_done[q_refreshes[i].id] +
                      (IF SchedDue(i) /\ SchedReached(i) /\ q_refreshes[i].pair \in q_tracked
                       THEN 1 ELSE 0)

BackfillScheduling == [][BackfillStep]_vars

\* A check has made back_refresh_max_per_tick fetches and left a due entry,
\* which it did not come to, in the schedule.
DueEntryLeftByLimit ==
    /\ q_fetches = back_refresh_max_per_tick
    /\ \E i \in 1..Len(q_refreshes) : SchedDue(i) /\ q_done[q_refreshes[i].id] = 0

\* C38: the incremental update equals the full recompute. After k ticks were
\* appended and update_mas has run with last_update_nums = k, the last k
\* elements of the moving average of every window are the last k elements of
\* a full recompute over the whole source, whatever the length of the source.
IncrementalEqualsFull ==
    i_num > 0 =>
        \A w \in IncWindows :
            /\ Len(FullRecompute(i_source, w)) >= i_num
            /\ LastN(i_mas[w], i_num) = LastN(FullRecompute(i_source, w), i_num)

\* What the code does: the two agree once the source before the new ticks is
\* at least as long as the window.
IncrementalEqualsFullFromWindow ==
    i_num > 0 =>
        \A w \in IncWindows :
            Len(i_source) - i_num >= w =>
                LastN(i_mas[w], i_num) = LastN(FullRecompute(i_source, w), i_num)

\* One tick was appended to a source of one tick: update_mas has put an
\* element into the moving average of window 2, a full recompute has none.
ElementBeforeWindow ==
    /\ i_num = 1
    /\ Len(i_source) = 2
    /\ Len(i_mas[2]) = 1
    /\ FullRecompute(i_source, 2) = <<>>

\* C39: series alignment. After every update cycle the adjusted close values
\* and the volume derivatives of the pair have one element for each close
\* time, the element at index i being that of the tick at index i.
SeriesAligned ==
    a_pc = "wait" => (a_adjusted = a_ticks.times /\ a_derivs = a_ticks.times)

\* What the code does: the series are aligned as long as the tick data have
\* not been truncated.
AlignedBeforeTruncation ==
    (a_pc = "wait" /\ ~a_cut) => (a_adjusted = a_ticks.times /\ a_derivs = a_ticks.times)

\* The cycle that truncated the tick data is over: the derived series have
\* kept the elements of the ticks that were cut.
DerivedNotTruncated ==
    /\ a_pc = "wait"
    /\ a_cut
    /\ Len(a_ticks.times) = MinTickLength
    /\ Len(a_adjusted) = MinTickLength + TruncateSlack + 1
    /\ Len(a_derivs) = MinTickLength + TruncateSlack + 1

(***************************************************************************)
(* C40: cancellation of the event-loop tasks.                              *)
(***************************************************************************)

\* The sleep of _live ends and execute goes on after _live has returned:
\* the event loop resumes a coroutine whose timer has run out.
StopFairSpec == StopSpec /\ WF_vars(StopLive) /\ WF_vars(StopExecute)

\* The task is at the await after which its next step comes to the loop test.
BeforeLoopTest(task) ==
    \/ z_pc[task] \in {"created", "sleep"}
    \/ z_pc[task] = "body" /\ task \in {"refresh_data", "update_data"}

AllTasksStopped == \A task \in TaskNames : z_pc[task] \in Stopped

NoNewIterationStep ==
    \A task \in TaskNames :
        (z_interrupt /\ BeforeLoopTest(task) /\ z_pc'[task] # z_pc[task]) => z_pc'[task] \in Stopped

====
